---- MODULE Spec2Model ----
(***************************************************************************)
(* Enterprise BRD generator: the record schema (models/brd_models.py), the *)
(* SQLite persistence store (utils/database.py) and the Streamlit page     *)
(* handlers that mutate and save a project (app.py).                       *)
(*                                                                         *)
(* Texts are modelled by named atoms whose lengths StrLen gives; a float   *)
(* temperature is an integer number of hundredths; a JSON text is a tagged *)
(* value that json.loads either parses or rejects; a timestamp is a tick   *)
(* count and its isoformat() text a tuple compared as SQLite compares TEXT.*)
(***************************************************************************)
EXTENDS Integers, Sequences, FiniteSets, TLC

\* ------------------------------------------------------------------ bounds
\* Ticks of the clock the model runs for: every handler that reaches the
\* store's datetime.now() takes one tick.  MaxClock bounds the runs of two
\* concurrent sessions, MaxSoloClock those of a single session.
MaxClock == 3
MaxSoloClock == 4
\* Records a working copy may hold, over its nine collections.
MaxRecs == 1
MaxOrderRecs == 3
MaxOrderClock == 5
MaxImportClock == 3
\* Clock ticks that share one strftime('%Y%m%d%H%M%S') second.
TicksPerSecond == 2

Sessions == {"s1", "s2"}

\* The processes that may run init_database at the same time.
Procs == {"p1", "p2"}

\* ------------------------------------------------------------------ texts
\* The absent value (Python None, JSON null).
None == "<None>"
\* A text of 256 characters, longer than every max_length=255.
Long256 == "<256 characters>"

StrLen(s) ==
    CASE s = "" -> 0
      [] s = "  " -> 2
      [] s = "CRM" -> 3
      [] s = "Order" -> 5
      [] s = "Order List" -> 10
      [] s = "Order Tracker" -> 13
      [] s = "Tracks customer orders end to end" -> 33
      [] s = "Reduce order-status inquiries by 40%" -> 36
      [] s = Long256 -> 256
      [] s = "1.0" -> 3
      [] s = "Local AI" -> 8
      [] s = "UI-001" -> 6
      [] s = "API-001" -> 7
      [] s = "LLM-001" -> 7
      [] s = "BR-001" -> 6
      [] s = "AGENT-001" -> 9
      [] s = "CONFIG-001" -> 10
      [] s = "TASK-001" -> 8
      [] s = "/api/v1/orders" -> 14
      [] s = "INT" -> 3
      [] s = "orders" -> 6
      [] s = "id" -> 2
      [] s = "Backend" -> 7
      [] s = "FastAPI" -> 7
      [] s = "timeout" -> 7
      [] s = "30" -> 2
      [] s = "VARCHAR" -> 7
      [] s = "TEXT" -> 4
      [] s = "DATETIME" -> 8
      [] s = "BOOLEAN" -> 7
      [] s = "DECIMAL" -> 7

\* str.strip(): the model's only text with surrounding whitespace is all blank.
Strip(s) == IF s = "  " THEN "" ELSE s

\* Python truthiness of a text or None.
Truthy(s) == s # "" /\ s # None

\* src/app.py validate_required_field: raises ValueError on a blank value,
\* otherwise returns the stripped value.
validate_required_field(value) ==
    IF ~Truthy(value) \/ Strip(value) = ""
    THEN [ok |-> FALSE, val |-> ""]
    ELSE [ok |-> TRUE, val |-> Strip(value)]

\* ------------------------------------------------------------------ schema
\* A field of a pydantic model: Field(default or ..., min_length, max_length,
\* ge, le).  hi = -1: no upper constraint.  ty "str" bounds the length, ty
\* "float" the value (in hundredths), ty "any" carries no constraint.
Str(n, lo, hi, req, d) == [name |-> n, ty |-> "str", lo |-> lo, hi |-> hi, req |-> req, dflt |-> d]
Flt(n, lo, hi, d) == [name |-> n, ty |-> "float", lo |-> lo, hi |-> hi, req |-> FALSE, dflt |-> d]
Free(n, req, d) == [name |-> n, ty |-> "any", lo |-> 0, hi |-> -1, req |-> req, dflt |-> d]

OverviewModel ==
    << Str("project_name", 1, 255, TRUE, ""),
       Str("project_description", 10, 2000, TRUE, ""),
       Str("business_goal", 10, 2000, TRUE, ""),
       Free("document_version", FALSE, "1.0"),
       Str("prepared_by", 0, 255, FALSE, ""),
       Str("approved_by", 0, 255, FALSE, ""),
       Free("target_release_date", FALSE, None) >>

UISpecificationModel ==
    << Str("requirement_id", 0, 50, FALSE, ""),
       Str("feature_module", 0, 255, FALSE, ""),
       Str("screen_component", 1, 255, TRUE, ""),
       Str("requirement_description", 10, 2000, TRUE, ""),
       Str("validation_rule", 0, 1000, FALSE, ""),
       Str("business_rule", 0, 1000, FALSE, ""),
       Free("master_detail", FALSE, "N/A"),
       Free("priority", FALSE, "Should") >>

APISpecificationModel ==
    << Str("api_id", 1, 50, TRUE, ""),
       Str("api_name", 1, 255, TRUE, ""),
       Free("method", TRUE, ""),
       Str("endpoint", 1, 255, TRUE, ""),
       Str("request_payload", 0, 2000, FALSE, ""),
       Str("response_payload", 0, 2000, FALSE, ""),
       Str("business_rule", 0, 1000, FALSE, ""),
       Free("api_type", FALSE, "Internal") >>

LLMPromptModel ==
    << Str("prompt_id", 1, 50, TRUE, ""),
       Str("use_case", 1, 255, TRUE, ""),
       Str("prompt_template", 10, 5000, TRUE, ""),
       Str("input_variables", 0, 1000, FALSE, ""),
       Str("expected_output", 0, 1000, FALSE, ""),
       Free("model_name", FALSE, "llama3.2"),
       Flt("temperature", 0, 200, 70) >>

DatabaseSchemaModel ==
    << Str("table_name", 1, 255, TRUE, ""),
       Str("field_name", 1, 255, TRUE, ""),
       Str("data_type", 1, 100, TRUE, ""),
       Str("constraints", 0, 500, FALSE, ""),
       Free("relationship", FALSE, "N/A"),
       Str("description", 0, 1000, FALSE, "") >>

TechStackModel ==
    << Str("category", 1, 255, TRUE, ""),
       Str("technology_tool", 1, 255, TRUE, ""),
       Str("version", 0, 100, FALSE, ""),
       Str("rationale", 0, 1000, FALSE, ""),
       Str("repository_url", 0, 500, FALSE, "") >>

TraceabilityModel ==
    << Str("business_requirement_id", 1, 50, TRUE, ""),
       Str("business_requirement", 10, 2000, TRUE, ""),
       Str("linked_ui_id", 0, 500, FALSE, ""),
       Str("linked_api_id", 0, 500, FALSE, ""),
       Str("linked_llm_id", 0, 500, FALSE, ""),
       Free("status", FALSE, "Proposed") >>

AgentArchitectureModel ==
    << Str("agent_id", 1, 50, TRUE, ""),
       Str("agent_name", 1, 255, TRUE, ""),
       Free("agent_type", TRUE, ""),
       Str("primary_role", 1, 255, TRUE, ""),
       Str("capabilities", 0, 2000, FALSE, ""),
       Str("dependencies", 0, 500, FALSE, ""),
       Free("communication_protocol", FALSE, "REST"),
       Str("description", 0, 1000, FALSE, "") >>

AgentConfigurationModel ==
    << Str("config_id", 1, 50, TRUE, ""),
       Str("agent_id", 1, 50, TRUE, ""),
       Str("parameter_name", 1, 255, TRUE, ""),
       Str("parameter_value", 1, 1000, TRUE, ""),
       Free("parameter_type", FALSE, "string"),
       Str("description", 0, 500, FALSE, ""),
       Free("required", FALSE, TRUE) >>

AgentTaskModel ==
    << Str("task_id", 1, 50, TRUE, ""),
       Str("agent_id", 1, 50, TRUE, ""),
       Str("task_name", 1, 255, TRUE, ""),
       Free("task_type", TRUE, ""),
       Str("input_data", 0, 1000, FALSE, ""),
       Str("output_data", 0, 1000, FALSE, ""),
       Str("success_criteria", 0, 1000, FALSE, ""),
       Str("error_handling", 0, 500, FALSE, ""),
       Str("description", 0, 1000, FALSE, "") >>

\* The nine collections of BRDProjectModel, in declaration order.
Collections ==
    << "ui_specifications", "api_specifications", "llm_prompts",
       "database_schema", "tech_stack", "traceability_matrix",
       "agent_architectures", "agent_configurations", "agent_tasks" >>

CollectionSet == { Collections[i] : i \in 1..Len(Collections) }

AgentCollections == {"agent_architectures", "agent_configurations", "agent_tasks"}

\* The record model of each collection (BRDProjectModel's List[...] types).
ModelOf(c) ==
    CASE c = "ui_specifications" -> UISpecificationModel
      [] c = "api_specifications" -> APISpecificationModel
      [] c = "llm_prompts" -> LLMPromptModel
      [] c = "database_schema" -> DatabaseSchemaModel
      [] c = "tech_stack" -> TechStackModel
      [] c = "traceability_matrix" -> TraceabilityModel
      [] c = "agent_architectures" -> AgentArchitectureModel
      [] c = "agent_configurations" -> AgentConfigurationModel
      [] c = "agent_tasks" -> AgentTaskModel

FieldNames(model) == { model[i].name : i \in 1..Len(model) }

\* One field's constraint, as pydantic checks it when a model is constructed.
FieldOk(f, v) ==
    CASE f.ty = "str" ->
            /\ v # None
            /\ StrLen(v) >= f.lo
            /\ (f.hi = -1 \/ StrLen(v) <= f.hi)
      [] f.ty = "float" -> v >= f.lo /\ v <= f.hi
      [] OTHER -> TRUE

\* Model(**d) succeeds iff every required field is given and every given
\* field meets its constraint (defaults are not validated).
Validates(model, d) ==
    \A i \in 1..Len(model) :
        IF model[i].name \in DOMAIN d
        THEN FieldOk(model[i], d[model[i].name])
        ELSE ~model[i].req

\* The instance Model(**d) builds: given fields kept, missing ones defaulted,
\* unknown keys ignored.
Construct(model, d) ==
    [ n \in FieldNames(model) |->
        IF n \in DOMAIN d THEN d[n]
        ELSE LET i == CHOOSE j \in 1..Len(model) : model[j].name = n
             IN model[i].dflt ]

\* model_dump(): the dict of all fields of an instance.
model_dump(rec) == [ n \in DOMAIN rec |-> rec[n] ]

\* ------------------------------------------------------------------ JSON
\* A stored text: t = "json" is well-formed JSON whose parsed value is v;
\* t = "malformed" is text json.loads rejects; t = "null" is SQL NULL or ''.
JsonText(v) == [t |-> "json", v |-> v]
Malformed == [t |-> "malformed", v |-> <<>>]
SqlNull == [t |-> "null", v |-> <<>>]

\* json.dumps of a list of model_dump() dicts.
json_dumps_list(recs) == JsonText([ i \in 1..Len(recs) |-> model_dump(recs[i]) ])

\* json.loads raises on malformed text.
JsonParses(txt) == txt.t = "json"

\* [Model(**spec) for spec in json.loads(text)]: raises when the text does not
\* parse or any one item fails validation.
LoadsList(model, txt) ==
    IF JsonParses(txt) /\ \A i \in 1..Len(txt.v) : Validates(model, txt.v[i])
    THEN [ok |-> TRUE, val |-> [ i \in 1..Len(txt.v) |-> Construct(model, txt.v[i]) ]]
    ELSE [ok |-> FALSE, val |-> <<>>]

\* ------------------------------------------------------------------ time
\* datetime.now().isoformat(): the microsecond part is omitted when it is 0.
isoformat(t) ==
    IF t % TicksPerSecond = 0
    THEN << t \div TicksPerSecond >>
    ELSE << t \div TicksPerSecond, t % TicksPerSecond >>

\* SQLite's TEXT comparison of two isoformat texts (fixed-width digit groups):
\* the first differing group decides, and a proper prefix sorts first.
TextLess(a, b) ==
    \/ a[1] < b[1]
    \/ /\ a[1] = b[1]
       /\ \/ Len(a) < Len(b)
          \/ Len(a) = 2 /\ Len(b) = 2 /\ a[2] < b[2]

\* f"proj-{datetime.now().strftime('%Y%m%d%H%M%S')}": the second of the clock.
ProjectIdAt(t) == t \div TicksPerSecond

\* ------------------------------------------------------------------ table
\* CREATE TABLE projects (...): the fifteen columns, in order.
AllColumns ==
    << "project_id", "project_name", "template_type", "overview_json",
       "ui_specs_json", "api_specs_json", "llm_prompts_json", "db_schema_json",
       "tech_stack_json", "traceability_json", "agent_architectures_json",
       "agent_configurations_json", "agent_tasks_json", "created_at", "updated_at" >>

\* required_columns of init_database, in dict order.
required_columns ==
    << "template_type", "agent_architectures_json",
       "agent_configurations_json", "agent_tasks_json" >>

SeqToSet(q) == { q[i] : i \in 1..Len(q) }

\* The column that stores a collection.
ColumnOf(c) ==
    CASE c = "ui_specifications" -> "ui_specs_json"
      [] c = "api_specifications" -> "api_specs_json"
      [] c = "llm_prompts" -> "llm_prompts_json"
      [] c = "database_schema" -> "db_schema_json"
      [] c = "tech_stack" -> "tech_stack_json"
      [] c = "traceability_matrix" -> "traceability_json"
      [] c = "agent_architectures" -> "agent_architectures_json"
      [] c = "agent_configurations" -> "agent_configurations_json"
      [] c = "agent_tasks" -> "agent_tasks_json"

CollectionOfColumn(col) == CHOOSE c \in CollectionSet : ColumnOf(c) = col

\* The DEFAULT of a column added by ALTER TABLE ... ADD COLUMN.
ColumnDefault(col) ==
    IF col = "template_type" THEN "Normal" ELSE JsonText(<<>>)

\* A migration that rebuilds the table with the new column and copies nothing.
AddColumnRecreate(d, col) ==
    [ d EXCEPT !.columns = Append(@, col), !.rows = [ id \in {} |-> << >> ] ]

\* ALTER TABLE projects ADD COLUMN col ... DEFAULT: the column is appended and
\* every existing row reads the default for it.
AddColumn(d, col) ==
    [ d EXCEPT
        !.columns = Append(@, col),
        !.rows = [ id \in DOMAIN @ |->
                     [ k \in DOMAIN @[id] \cup {col} |->
                         IF k = col THEN ColumnDefault(col) ELSE @[id][k] ] ] ]

RECURSIVE AddMissing(_, _, _)
\* The loop of init_database over required_columns, from position i, with the
\* existing_columns read once before the loop.
AddMissing(d, existing, i) ==
    IF i > Len(required_columns) THEN d
    ELSE IF required_columns[i] \in existing
         THEN AddMissing(d, existing, i + 1)
         ELSE AddMissing(AddColumn(d, required_columns[i]), existing, i + 1)

EmptyRows == [ id \in {} |-> <<>> ]

\* init_database, run without interruption: create the table when it is
\* absent, otherwise add the columns it lacks.
init_database(d) ==
    IF ~d.exists
    THEN [exists |-> TRUE, columns |-> AllColumns, rows |-> EmptyRows]
    ELSE AddMissing(d, SeqToSet(d.columns), 1)

\* The values create_project and update_project bind for the content columns.
ContentValue(agg, col) ==
    CASE col = "project_name" -> agg.overview.project_name
      [] col = "template_type" -> agg.template_type
      [] col = "overview_json" -> JsonText(model_dump(agg.overview))
      [] OTHER -> json_dumps_list(agg.colls[CollectionOfColumn(col)])

\* The row INSERT INTO projects (...) VALUES (...) leaves in a table of the
\* columns cols: the id, the content and both timestamps set to now.
RowOf(cols, agg, t) ==
    [ col \in SeqToSet(cols) |->
        CASE col = "project_id" -> agg.project_id
          [] col \in {"created_at", "updated_at"} -> isoformat(t)
          [] OTHER -> ContentValue(agg, col) ]

\* create_project: INSERT of a row under the id of the current second.  A
\* second INSERT under an existing id violates the PRIMARY KEY and raises.
create_project(d, agg, t) ==
    LET d1 == init_database(d)
        project_id == ProjectIdAt(t)
        row == RowOf(d1.columns, [agg EXCEPT !.project_id = project_id], t)
    IN  IF project_id \in DOMAIN d1.rows
        THEN [ok |-> FALSE, id |-> project_id, db |-> d1]
        ELSE [ok |-> TRUE, id |-> project_id,
              db |-> [ d1 EXCEPT !.rows =
                         [ id \in DOMAIN @ \cup {project_id} |->
                             IF id = project_id THEN row ELSE @[id] ] ]]

\* A save that stamps created_at, not updated_at, with the time of the save.
update_project_stamps_created(d, agg, t) ==
    LET d1 == init_database(d)
    IN  IF agg.project_id \in DOMAIN d1.rows
        THEN [ d1 EXCEPT !.rows[agg.project_id] =
                 [ col \in DOMAIN @ |->
                     CASE col \in {"project_id", "updated_at"} -> @[col]
                       [] col = "created_at" -> isoformat(t)
                       [] OTHER -> ContentValue(agg, col) ] ]
        ELSE d1

\* A save that inserts the row when the id has none (INSERT OR REPLACE).
update_project_upsert(d, agg, t) ==
    LET d1 == init_database(d)
    IN  [ d1 EXCEPT !.rows =
            [ id \in DOMAIN @ \cup {agg.project_id} |->
                IF id # agg.project_id THEN @[id]
                ELSE [ col \in SeqToSet(d1.columns) |->
                        IF id \in DOMAIN @ /\ col = "created_at" THEN @[id][col]
                        ELSE RowOf(d1.columns, agg, t)[col] ] ] ]

\* A save that writes a collection block only when the working copy holds
\* records of it, and leaves the stored block otherwise (a merge).
update_project_keeps_blocks(d, agg, t) ==
    LET d1 == init_database(d)
    IN  IF agg.project_id \in DOMAIN d1.rows
        THEN [ d1 EXCEPT !.rows[agg.project_id] =
                 [ col \in DOMAIN @ |->
                     CASE col \in {"project_id", "created_at"} -> @[col]
                       [] col = "updated_at" -> isoformat(t)
                       [] col \in {"project_name", "template_type", "overview_json"} ->
                            ContentValue(agg, col)
                       [] OTHER -> IF agg.colls[CollectionOfColumn(col)] = << >>
                                   THEN @[col] ELSE ContentValue(agg, col) ] ]
        ELSE d1

\* update_project: UPDATE ... WHERE project_id = ?, which changes the row of
\* that id when there is one and nothing otherwise; it returns True either way.
update_project(d, agg, t) ==
    LET d1 == init_database(d)
    IN  IF agg.project_id \in DOMAIN d1.rows
        THEN [ d1 EXCEPT !.rows[agg.project_id] =
                 [ col \in DOMAIN @ |->
                     CASE col \in {"project_id", "created_at"} -> @[col]
                       [] col = "updated_at" -> isoformat(t)
                       [] OTHER -> ContentValue(agg, col) ] ]
        ELSE d1

\* delete_project: DELETE FROM projects WHERE project_id = ?.
delete_project(d, project_id) ==
    LET d1 == init_database(d)
    IN  [ d1 EXCEPT !.rows = [ id \in DOMAIN @ \ {project_id} |-> @[id] ] ]

\* The working copy a session holds: BRDProjectModel without its two
\* default_factory timestamps, which are never stored.
EmptyColls == [ c \in CollectionSet |-> <<>> ]

BRDProjectModel(project_id, template_type, overview) ==
    [project_id |-> project_id, template_type |-> template_type,
     overview |-> overview, colls |-> EmptyColls]

\* One "Load ..." block of get_project: the collection is replaced only when
\* the column exists, its text is non-empty and every item loads.
LoadBlock(row, c) ==
    IF ColumnOf(c) \in DOMAIN row /\ row[ColumnOf(c)].t # "null"
    THEN LET r == LoadsList(ModelOf(c), row[ColumnOf(c)])
         IN  IF r.ok THEN r.val ELSE <<>>
    ELSE <<>>

\* row[template_type_idx] if ... and row[template_type_idx] else 'Normal'.
LoadTemplateType(row) ==
    IF "template_type" \in DOMAIN row /\ Truthy(row["template_type"])
    THEN row["template_type"] ELSE "Normal"

\* get_project with one try block around all nine loads: the first block that
\* fails to load raises out of the function.
get_project_one_try(d, project_id) ==
    LET d1 == init_database(d)
    IN  IF project_id \notin DOMAIN d1.rows
        THEN [status |-> "none", db |-> d1]
        ELSE LET row == d1.rows[project_id]
                 txt == row["overview_json"]
             IN  IF \/ ~JsonParses(txt)
                    \/ ~Validates(OverviewModel, txt.v)
                    \/ \E c \in CollectionSet :
                          /\ ColumnOf(c) \in DOMAIN row
                          /\ row[ColumnOf(c)].t # "null"
                          /\ ~LoadsList(ModelOf(c), row[ColumnOf(c)]).ok
                 THEN [status |-> "raise", db |-> d1]
                 ELSE [status |-> "ok", db |-> d1,
                       val |-> [ BRDProjectModel(row["project_id"], LoadTemplateType(row),
                                                 Construct(OverviewModel, txt.v))
                                 EXCEPT !.colls = [ c \in CollectionSet |-> LoadBlock(row, c) ] ]]

\* get_project: "none" when the id has no row, "raise" when the overview text
\* does not parse or fails OverviewModel, otherwise the aggregate.
get_project(d, project_id) ==
    LET d1 == init_database(d)
    IN  IF project_id \notin DOMAIN d1.rows
        THEN [status |-> "none", db |-> d1]
        ELSE LET row == d1.rows[project_id]
                 txt == row["overview_json"]
             IN  IF ~JsonParses(txt) \/ ~Validates(OverviewModel, txt.v)
                 THEN [status |-> "raise", db |-> d1]
                 ELSE [status |-> "ok", db |-> d1,
                       val |-> [ BRDProjectModel(row["project_id"], LoadTemplateType(row),
                                                 Construct(OverviewModel, txt.v))
                                 EXCEPT !.colls = [ c \in CollectionSet |-> LoadBlock(row, c) ] ]]

\* One summary of list_projects.
Summary(row) ==
    [project_id |-> row["project_id"], project_name |-> row["project_name"],
     template_type |-> row["template_type"],
     created_at |-> row["created_at"], updated_at |-> row["updated_at"]]

\* The listing with ORDER BY updated_at ASC.
list_projects_asc(d) ==
    LET d1 == init_database(d)
        ids == DOMAIN d1.rows
        n == Cardinality(ids)
    IN  { [ i \in 1..n |-> Summary(d1.rows[q[i]]) ] :
            q \in { p \in [1..n -> ids] :
                      /\ \A i, j \in 1..n : i # j => p[i] # p[j]
                      /\ \A i \in 1..(n - 1) :
                           ~TextLess(d1.rows[p[i + 1]]["updated_at"],
                                     d1.rows[p[i]]["updated_at"]) } }

\* The orders SELECT ... ORDER BY updated_at DESC may return the rows in: rows
\* with equal updated_at come in either order.
list_projects(d) ==
    LET d1 == init_database(d)
        ids == DOMAIN d1.rows
        n == Cardinality(ids)
    IN  { [ i \in 1..n |-> Summary(d1.rows[q[i]]) ] :
            q \in { p \in [1..n -> ids] :
                      /\ \A i, j \in 1..n : i # j => p[i] # p[j]
                      /\ \A i \in 1..(n - 1) :
                           ~TextLess(d1.rows[p[i]]["updated_at"],
                                     d1.rows[p[i + 1]]["updated_at"]) } }

\* ------------------------------------------------------------------ forms
\* The six collections edited through add/edit/delete forms.
FormCollections ==
    {"ui_specifications", "api_specifications", "llm_prompts",
     "database_schema", "tech_stack", "traceability_matrix"}

\* The form values the handlers pass through validate_required_field.
RequiredInputs(c) ==
    CASE c = "ui_specifications" -> {"screen_component", "requirement_description"}
      [] c = "api_specifications" -> {"endpoint", "api_name", "request_payload", "response_payload"}
      [] c = "llm_prompts" -> {"use_case", "prompt_template"}
      [] c = "database_schema" -> {"table_name", "field_name"}
      [] c = "tech_stack" -> {"category", "technology_tool", "rationale"}
      [] c = "traceability_matrix" -> {"business_requirement_id", "business_requirement"}
      [] c = "agent_architectures" -> {"agent_id", "agent_name", "primary_role", "capabilities"}
      [] c = "agent_configurations" -> {"config_id", "agent_id", "parameter_name", "parameter_value"}
      [] c = "agent_tasks" -> {"task_id", "agent_id", "task_name", "input_data"}

\* The form values taken as `x.strip() if x else ""`.
StrippedInputs(c) ==
    CASE c = "ui_specifications" -> {"requirement_id", "feature_module", "validation_rule", "business_rule"}
      [] c = "api_specifications" -> {"api_id", "business_rule"}
      [] c = "llm_prompts" -> {"prompt_id", "input_variables", "expected_output"}
      [] c = "database_schema" -> {"constraints", "description"}
      [] c = "tech_stack" -> {"version", "repository_url"}
      [] c = "traceability_matrix" -> {"linked_ui_id", "linked_api_id", "linked_llm_id"}
      [] OTHER -> {}

\* What a submit handler makes of the form: the required inputs checked and
\* stripped, the optional texts stripped, selections and the slider as given.
SubmitForm(c, form) ==
    IF \E f \in RequiredInputs(c) : ~validate_required_field(form[f]).ok
    THEN [ok |-> FALSE, val |-> form]
    ELSE [ok |-> TRUE,
          val |-> [ n \in DOMAIN form |->
                      IF n \in RequiredInputs(c) THEN validate_required_field(form[n]).val
                      ELSE IF n \in StrippedInputs(c)
                           THEN (IF Truthy(form[n]) THEN Strip(form[n]) ELSE "")
                           ELSE form[n] ]]

\* The values an edit form shows for the selected record: value=x or "" for
\* the texts, and for the slider `selected_prompt.temperature or 0.7`.
Prefill(c, rec) ==
    [ n \in DOMAIN rec |->
        IF c = "llm_prompts" /\ n = "temperature"
        THEN (IF rec[n] = 0 THEN 70 ELSE rec[n])
        ELSE rec[n] ]

\* A filled-in add form of each collection.
FilledForm(c) ==
    CASE c = "ui_specifications" ->
           [requirement_id |-> "UI-001", feature_module |-> "",
            screen_component |-> "Order List",
            requirement_description |-> "Tracks customer orders end to end",
            validation_rule |-> "", business_rule |-> "",
            master_detail |-> "N/A", priority |-> "Must"]
      [] c = "api_specifications" ->
           [api_id |-> "API-001", api_name |-> "Order List", method |-> "GET",
            endpoint |-> "/api/v1/orders", request_payload |-> "id",
            response_payload |-> "orders", business_rule |-> "",
            api_type |-> "Internal"]
      [] c = "llm_prompts" ->
           [prompt_id |-> "LLM-001", use_case |-> "Order List",
            prompt_template |-> "Tracks customer orders end to end",
            input_variables |-> "", expected_output |-> "",
            model_name |-> "llama3.2", temperature |-> 70]
      [] c = "database_schema" ->
           [table_name |-> "orders", field_name |-> "id", data_type |-> "INT",
            constraints |-> "", relationship |-> "N/A", description |-> ""]
      [] c = "tech_stack" ->
           [category |-> "Backend", technology_tool |-> "FastAPI", version |-> "",
            rationale |-> "Order List", repository_url |-> ""]
      [] c = "traceability_matrix" ->
           [business_requirement_id |-> "BR-001",
            business_requirement |-> "Reduce order-status inquiries by 40%",
            linked_ui_id |-> "", linked_api_id |-> "", linked_llm_id |-> "",
            status |-> "Proposed"]
      [] c = "agent_architectures" ->
           [agent_id |-> "AGENT-001", agent_name |-> "Order Tracker",
            agent_type |-> "Autonomous", primary_role |-> "Order List",
            capabilities |-> "Order", dependencies |-> "",
            communication_protocol |-> "REST", description |-> ""]
      [] c = "agent_configurations" ->
           [config_id |-> "CONFIG-001", agent_id |-> "AGENT-001",
            parameter_name |-> "timeout", parameter_value |-> "30",
            parameter_type |-> "string", description |-> "", required |-> FALSE]
      [] c = "agent_tasks" ->
           [task_id |-> "TASK-001", agent_id |-> "AGENT-001",
            task_name |-> "Order List", task_type |-> "Data Processing",
            input_data |-> "orders", output_data |-> "", success_criteria |-> "",
            error_handling |-> "", description |-> ""]

\* The inputs a user changes in an edit form before submitting: one field set
\* to one value ("" as field: the form is submitted as shown).
FormChanges(c) ==
    {<<"", "">>} \cup
    ( CASE c = "ui_specifications" ->
             {<<"requirement_description", "Order">>, <<"screen_component", "  ">>,
              <<"priority", "Could">>}
        [] c = "api_specifications" -> {<<"api_id", "">>}
        [] c = "llm_prompts" -> {<<"prompt_template", "Order">>, <<"temperature", 0>>}
        [] c = "database_schema" -> {<<"relationship", "Primary">>}
        [] c = "tech_stack" -> {<<"version", "1.0">>}
        [] c = "traceability_matrix" -> {<<"business_requirement", "Order">>}
        [] OTHER -> {} )

\* The same for an add form, whose other inputs are those of FilledForm.
AddChanges(c) ==
    {<<"", "">>} \cup
    ( CASE c = "ui_specifications" -> {<<"requirement_description", "Order">>}
        [] c = "api_specifications" -> {<<"api_id", "">>}
        [] c = "agent_tasks" -> {<<"input_data", "  ">>}
        [] OTHER -> {} )

Change(form, ch) == IF ch[1] = "" THEN form ELSE [form EXCEPT ![ch[1]] = ch[2]]

\* A removal that fills position i with the last item (swap and pop).
PopSwapLast(q, i) == [ j \in 1..(Len(q) - 1) |-> IF j = i THEN q[Len(q)] ELSE q[j] ]

\* list.pop(i)
Pop(q, i) == [ j \in 1..(Len(q) - 1) |-> IF j < i THEN q[j] ELSE q[j + 1] ]

\* list.remove(x): removes the first item equal to x.
Remove(q, x) == Pop(q, CHOOSE i \in 1..Len(q) : q[i] = x /\ \A j \in 1..(i - 1) : q[j] # x)

\* ------------------------------------------------------------------ state
VARIABLES
    table_exists,   \* the projects table exists in data/brd_projects.db
    columns,        \* its columns, in table order
    rows,           \* its rows, by project_id
    clock,          \* datetime.now(), in ticks
    wc,             \* per session: the brd_project of the running page script
    last,           \* history: the last store write a handler made, what it
                    \* reported (ok) and the aggregate it was given
    chosen,         \* history: per created id, the template kind chosen
    deleted,        \* history: ids deleted and not created again since
    pc,             \* per process running init_database: where it is
    existing_columns, \* per such process: the column names its PRAGMA read
    legacy,         \* history: the store as the application found it
    session_state,  \* per session: st.session_state, the add forms shown
                    \* (show_*_form) and the suggestions kept (*_suggestion)
    template_db     \* brd_templates.db of a TemplateManager: its templates
                    \* and template_versions tables

vars == << table_exists, columns, rows, clock, wc, last, chosen, deleted,
           pc, existing_columns, legacy, session_state, template_db >>

\* What only a stepwise init_database changes, and the history of the start.
initvars == << pc, existing_columns, legacy >>

DB == [exists |-> table_exists, columns |-> columns, rows |-> rows]

SetDB(d) ==
    /\ table_exists' = d.exists
    /\ columns' = d.columns
    /\ rows' = d.rows

\* A position in init_database: the statement, and for the loop its index.
At(stmt, i) == [at |-> stmt, i |-> i]

NoWC == [loaded |-> FALSE]
Loaded(agg) == [loaded |-> TRUE, agg |-> agg]

TemplateTypes == {"Normal", "Agentic", "Multi-Agentic"}

\* brd_templates.db after TemplateManager.init_database on a new file: both
\* tables exist and are empty.
NoTemplates == [templates |-> << >>, template_versions |-> << >>]

\* st.session_state of a session that has opened no add form: every
\* show_*_form is False and no *_suggestion key exists.
FreshSession == [show |-> {}, suggestion |-> << >>]

\* The add submit's success and Cancel: `show_<c>_form = False` and
\* `del st.session_state.<c>_suggestion` when the key is there.
CloseForm(ss, c) ==
    [show |-> ss.show \ {c},
     suggestion |-> [ k \in (DOMAIN ss.suggestion) \ {c} |-> ss.suggestion[k] ]]

\* The state after the application has started: app.py calls init_database()
\* on an empty data directory before any page runs.
Init ==
    /\ table_exists = TRUE
    /\ columns = AllColumns
    /\ rows = EmptyRows
    /\ clock = 0
    /\ wc = [ s \in Sessions |-> NoWC ]
    /\ last = [op |-> "none", ok |-> TRUE, id |-> -1, agg |-> NoWC]
    /\ chosen = [ id \in {} |-> "" ]
    /\ deleted = {}
    /\ session_state = [ s \in Sessions |-> FreshSession ]
    /\ template_db = NoTemplates
    /\ pc = [ p \in Procs |-> At("done", 0) ]
    /\ existing_columns = [ p \in Procs |-> {} ]
    /\ legacy = [exists |-> TRUE, columns |-> AllColumns, rows |-> EmptyRows]

\* show_create_project, "Create Project" pressed: the required inputs are
\* checked, the overview is constructed and create_project stores a project
\* with empty collections.  A failed check or construction shows an error.
CreateProject(name, description, template_type) ==
    LET vn == validate_required_field(name)
           vd == validate_required_field(description)
           vg == validate_required_field("Reduce order-status inquiries by 40%")
           d == [project_name |-> vn.val, project_description |-> vd.val,
                 business_goal |-> vg.val, document_version |-> "1.0",
                 prepared_by |-> "Local AI", approved_by |-> "",
                 target_release_date |-> "2025-12-31"]
       IN  IF ~vn.ok \/ ~vd.ok \/ ~vg.ok \/ ~Validates(OverviewModel, d)
           THEN UNCHANGED vars
           ELSE LET agg == BRDProjectModel(-1, template_type, Construct(OverviewModel, d))
                    r == create_project(DB, agg, clock)
                IN  /\ SetDB(r.db)
                    /\ clock' = clock + 1
                    /\ last' = [op |-> "create", ok |-> r.ok, id |-> r.id,
                                 agg |-> [agg EXCEPT !.project_id = r.id]]
                    /\ chosen' = IF r.ok
                                 THEN [ id \in DOMAIN chosen \cup {r.id} |->
                                          IF id = r.id THEN template_type ELSE chosen[id] ]
                                 ELSE chosen
                    /\ deleted' = IF r.ok THEN deleted \ {r.id} ELSE deleted
                    /\ UNCHANGED << wc, initvars, template_db, session_state >>

\* edit_overview at the start of a page run: every text input is assigned
\* back, `document_version or "1.0"` and `prepared_by or ""` as shown.
PageOverview(agg) ==
    [ agg EXCEPT
        !.overview.document_version = IF Truthy(@) THEN @ ELSE "1.0",
        !.overview.prepared_by = IF Truthy(@) THEN @ ELSE "" ]

\* next(p for p in projects if p['project_name'] == selected_project_name)
FirstNamed(L, name) ==
    L[CHOOSE i \in 1..Len(L) :
        /\ L[i].project_name = name
        /\ \A j \in 1..(i - 1) : L[j].project_name # name]

\* show_manage_projects up to the tabs, run with the listing L: the user
\* selects entry e by its name and get_project loads the project found under
\* that name.  None or an exception shows an error and renders no tab.
LoadEntry(s, L, e) ==
    LET g == get_project(DB, FirstNamed(L, L[e].project_name).project_id)
    IN  /\ wc' = [wc EXCEPT ![s] = IF g.status = "ok"
                                   THEN Loaded(PageOverview(g.val)) ELSE NoWC]
        /\ SetDB(g.db)
        /\ UNCHANGED << clock, last, chosen, deleted, initvars, template_db, session_state >>

LoadProject(s) ==
    \E L \in list_projects(DB) : \E e \in 1..Len(L) : LoadEntry(s, L, e)

\* The texts a user types into the overview inputs of a page run ("" as
\* field: the inputs are left as shown).
OverviewEdits ==
    { <<"", "">>, <<"project_name", "">>, <<"project_description", "Order">> }

\* The store write every handler ends with, and the page run ending with it
\* (st.rerun(), or the script reaching its end).
StoreAndRerun(s, agg, op) ==
    /\ SetDB(update_project(DB, agg, clock))
    /\ clock' = clock + 1
    /\ last' = [op |-> op, ok |-> TRUE, id |-> agg.project_id, agg |-> agg]
    /\ wc' = [wc EXCEPT ![s] = NoWC]
    /\ UNCHANGED << chosen, deleted, initvars, template_db >>

\* show_manage_projects, "Save Changes" pressed in a page run whose overview
\* inputs hold the change ch: edit_overview has reassigned the field of the
\* working copy, unvalidated, and update_project(brd_project) stores it.
SaveChanges(s, ch) ==
    /\ wc[s].loaded
    /\ StoreAndRerun(s,
           IF ch[1] = "" THEN wc[s].agg
           ELSE [wc[s].agg EXCEPT !.overview[ch[1]] = ch[2]],
           "save")
    /\ UNCHANGED session_state

\* The tabs a project shows: the agent tabs only for the agentic templates.
TabShown(agg, c) ==
    c \in FormCollections \/ agg.template_type \in {"Agentic", "Multi-Agentic"}

RECURSIVE SumLen(_, _)
SumLen(colls, i) ==
    IF i > Len(Collections) THEN 0
    ELSE Len(colls[Collections[i]]) + SumLen(colls, i + 1)

\* The records a working copy holds, over its nine collections.
TotalRecs(agg) == SumLen(agg.colls, 1)

\* edit_*: "Add ..." submitted.  The inputs are checked, the record is
\* constructed (a validation error shows an error and changes nothing),
\* appended, and the project is stored at once; the form is closed and its
\* suggestion deleted.
AddRecord(s, c, ch) ==
    /\ wc[s].loaded
    /\ TabShown(wc[s].agg, c)
    /\ LET f == SubmitForm(c, Change(FilledForm(c), ch))
       IN  IF ~f.ok \/ ~Validates(ModelOf(c), f.val)
           THEN UNCHANGED vars
           ELSE /\ StoreAndRerun(s,
                      [wc[s].agg EXCEPT !.colls[c] = Append(@, Construct(ModelOf(c), f.val))],
                      "add")
                /\ session_state' = [session_state EXCEPT ![s] = CloseForm(@, c)]

\* edit_* of the six form collections: "Save Changes" submitted on record i.
\* The required inputs are checked, every field of the record is reassigned
\* from the form and the project is stored at once.
EditRecord(s, c, i, ch) ==
    /\ wc[s].loaded
    /\ c \in FormCollections
    /\ i \in 1..Len(wc[s].agg.colls[c])
    /\ LET f == SubmitForm(c, Change(Prefill(c, wc[s].agg.colls[c][i]), ch))
       IN  IF ~f.ok
           THEN UNCHANGED vars
           ELSE /\ StoreAndRerun(s, [wc[s].agg EXCEPT !.colls[c][i] = f.val], "edit")
                /\ UNCHANGED session_state

\* The option a record has in the select box of its page.  The options of
\* the six form collections start with the position ("UI-<i+1>: ..."), which
\* alone tells them apart; those of the agent pages are
\* "<agent_id> - <name>" (a pair here: no text of the model holds " - "), or
\* the agent name alone.
OptionOf(c, q, i) ==
    CASE c \in FormCollections -> << i >>
      [] c = "agent_architectures" -> << q[i].agent_name >>
      [] c = "agent_configurations" -> << q[i].agent_id, q[i].parameter_name >>
      [] c = "agent_tasks" -> << q[i].agent_id, q[i].task_name >>

\* options.index(selected_option), or next(a for a in ... if a.agent_name ==
\* selected): the first record that has the option the user chose.
SelectedIdx(c, q, i) ==
    CHOOSE j \in 1..Len(q) :
        /\ OptionOf(c, q, j) = OptionOf(c, q, i)
        /\ \A k \in 1..(j - 1) : OptionOf(c, q, k) # OptionOf(c, q, i)

\* edit_*: "Delete" pressed with option i selected: pop(selected_idx) for the
\* form collections, remove(selected) for the agent collections, then the
\* project is stored.
DeleteRecord(s, c, i) ==
    /\ wc[s].loaded
    /\ TabShown(wc[s].agg, c)
    /\ i \in 1..Len(wc[s].agg.colls[c])
    /\ StoreAndRerun(s,
           [wc[s].agg EXCEPT !.colls[c] =
               IF c \in FormCollections
               THEN Pop(@, SelectedIdx(c, @, i))
               ELSE Remove(@, @[SelectedIdx(c, @, i)])],
           "remove")
    /\ UNCHANGED session_state

\* show_manage_projects, "Delete Project" pressed: delete_project(project_id)
\* with the id the selection resolved to, then st.rerun().
DeleteProject(s) ==
    /\ wc[s].loaded
    /\ SetDB(delete_project(DB, wc[s].agg.project_id))
    /\ last' = [op |-> "delete", ok |-> TRUE, id |-> wc[s].agg.project_id, agg |-> NoWC]
    /\ deleted' = deleted \cup {wc[s].agg.project_id}
    /\ wc' = [wc EXCEPT ![s] = NoWC]
    /\ UNCHANGED << clock, chosen, initvars, template_db, session_state >>

\* The handlers the sessions of S may run while the clock is below horizon
\* (loading and deleting a project do not read the clock).
Handlers(S, horizon) ==
    \/ /\ clock < horizon
       /\ \E name \in {"Order Tracker", "CRM", "  "} :
          \E description \in {"Tracks customer orders end to end", "Order"} :
          \E template_type \in TemplateTypes :
              CreateProject(name, description, template_type)
    \/ \E s \in S : LoadProject(s)
    \/ /\ clock < horizon
       /\ \E s \in S : \E ch \in OverviewEdits : SaveChanges(s, ch)
    \/ /\ clock < horizon
       /\ \E s \in S : \E c \in CollectionSet : \E ch \in AddChanges(c) :
              /\ wc[s].loaded
              /\ TotalRecs(wc[s].agg) < MaxRecs
              /\ AddRecord(s, c, ch)
    \/ /\ clock < horizon
       /\ \E s \in S : \E c \in FormCollections :
          \E i \in 1..MaxRecs : \E ch \in FormChanges(c) : EditRecord(s, c, i, ch)
    \/ /\ clock < horizon
       /\ \E s \in S : \E c \in CollectionSet : \E i \in 1..MaxRecs :
              DeleteRecord(s, c, i)
    \/ \E s \in S : DeleteProject(s)

\* Two sessions use the application at the same time.
Next == Handlers(Sessions, MaxClock)

Spec == Init /\ [][Next]_vars

\* One session uses the application, for longer.
SoloNext == Handlers({"s1"}, MaxSoloClock)

SpecSolo == Init /\ [][SoloNext]_vars

\* ------------------------------------------------- stores found at start
\* A store left by an earlier version of the application: the table without
\* the columns of `missing`.
LegacyColumns(missing) == SelectSeq(AllColumns, LAMBDA col : col \notin missing)

SampleOverview ==
    Construct(OverviewModel,
        [project_name |-> "Order Tracker",
         project_description |-> "Tracks customer orders end to end",
         business_goal |-> "Reduce order-status inquiries by 40%"])

\* A project with one valid record in each of its nine collections.
SampleAggregate ==
    [ BRDProjectModel(0, "Agentic", SampleOverview) EXCEPT
        !.colls = [ c \in CollectionSet |-> << Construct(ModelOf(c), FilledForm(c)) >> ] ]

\* The variables no step of init_database or get_project touches.
HandlerIdle ==
    /\ clock = 1
    /\ wc = [ s \in Sessions |-> NoWC ]
    /\ chosen = [ id \in {} |-> "" ]
    /\ deleted = {}
    /\ session_state = [ s \in Sessions |-> FreshSession ]
    /\ template_db = NoTemplates

\* ------------------------------------------- init_database, step by step
\* Two processes run init_database against one data/brd_projects.db.  Each
\* statement is one step: sqlite3 runs DDL in autocommit mode, so a CREATE or
\* ALTER is visible to the other connection as soon as it returns.
MigrateInit ==
    /\ \E ex \in BOOLEAN : \E missing \in SUBSET SeqToSet(required_columns) :
       \E n \in {0, 1} :
           /\ ex \/ (missing = {} /\ n = 0)
           /\ table_exists = ex
           /\ columns = IF ex THEN LegacyColumns(missing) ELSE << >>
           /\ rows = IF n = 1
                     THEN [ id \in {0} |-> RowOf(LegacyColumns(missing), SampleAggregate, 0) ]
                     ELSE EmptyRows
    /\ legacy = [exists |-> table_exists, columns |-> columns, rows |-> rows]
    /\ pc = [ p \in Procs |-> At("start", 0) ]
    /\ existing_columns = [ p \in Procs |-> {} ]
    /\ last = [op |-> "none", ok |-> TRUE, id |-> -1, agg |-> NoWC]
    /\ HandlerIdle

MigrateIdle == UNCHANGED << clock, wc, last, chosen, deleted, legacy, session_state, template_db >>

\* SELECT name FROM sqlite_master ...; table_exists = fetchone() is not None
CheckTable(p) ==
    /\ pc[p].at = "start"
    /\ pc' = [pc EXCEPT ![p] = IF table_exists THEN At("pragma", 0) ELSE At("create", 0)]
    /\ UNCHANGED << table_exists, columns, rows, existing_columns >>
    /\ MigrateIdle

\* CREATE TABLE projects (...): sqlite3.OperationalError when the table has
\* been created since the check; the outer handler logs and re-raises.
CreateTable(p) ==
    /\ pc[p].at = "create"
    /\ IF table_exists
       THEN /\ pc' = [pc EXCEPT ![p] = At("raised", 0)]
            /\ UNCHANGED << table_exists, columns, rows >>
       ELSE /\ pc' = [pc EXCEPT ![p] = At("commit", 0)]
            /\ table_exists' = TRUE
            /\ columns' = AllColumns
            /\ rows' = EmptyRows
    /\ UNCHANGED existing_columns
    /\ MigrateIdle

\* PRAGMA table_info(projects); existing_columns = {row[1] for row in ...}
TableInfo(p) ==
    /\ pc[p].at = "pragma"
    /\ existing_columns' = [existing_columns EXCEPT ![p] = SeqToSet(columns)]
    /\ pc' = [pc EXCEPT ![p] = At("alter", 1)]
    /\ UNCHANGED << table_exists, columns, rows >>
    /\ MigrateIdle

\* The loop body with the exception of a duplicate column propagating.
AlterTableUncaught(p) ==
    /\ pc[p].at = "alter"
    /\ LET col == required_columns[pc[p].i]
           after == IF pc[p].i < Len(required_columns)
                    THEN At("alter", pc[p].i + 1) ELSE At("commit", 0)
       IN  IF col \in existing_columns[p]
           THEN /\ pc' = [pc EXCEPT ![p] = after]
                /\ UNCHANGED << table_exists, columns, rows >>
           ELSE IF col \in SeqToSet(columns)
           THEN /\ pc' = [pc EXCEPT ![p] = At("raised", 0)]
                /\ UNCHANGED << table_exists, columns, rows >>
           ELSE /\ pc' = [pc EXCEPT ![p] = after]
                /\ SetDB(AddColumn(DB, col))
    /\ UNCHANGED existing_columns
    /\ MigrateIdle

\* One pass of `for col_name, alter_sql in required_columns.items()`: a column
\* the PRAGMA did not list is added; "duplicate column name", raised when the
\* other process has added it meanwhile, is caught and passed over.
AlterTable(p) ==
    /\ pc[p].at = "alter"
    /\ LET col == required_columns[pc[p].i]
       IN  IF col \in existing_columns[p] \/ col \in SeqToSet(columns)
           THEN UNCHANGED << table_exists, columns, rows >>
           ELSE SetDB(AddColumn(DB, col))
    /\ pc' = [pc EXCEPT ![p] = IF pc[p].i < Len(required_columns)
                                THEN At("alter", pc[p].i + 1) ELSE At("commit", 0)]
    /\ UNCHANGED existing_columns
    /\ MigrateIdle

\* conn.commit(), and conn.close() in the finally clause.
Commit(p) ==
    /\ pc[p].at = "commit"
    /\ pc' = [pc EXCEPT ![p] = At("done", 0)]
    /\ UNCHANGED << table_exists, columns, rows, existing_columns >>
    /\ MigrateIdle

MigrateNext ==
    \E p \in Procs :
        \/ CheckTable(p)
        \/ CreateTable(p)
        \/ TableInfo(p)
        \/ AlterTable(p)
        \/ Commit(p)

SpecMigrate == MigrateInit /\ [][MigrateNext]_vars

\* ------------------------------------------------ loading a stored project
\* The required text field of lowest position in a record model.
FirstRequired(model) ==
    model[CHOOSE i \in 1..Len(model) :
            /\ model[i].req /\ model[i].ty = "str" /\ model[i].lo >= 1
            /\ \A j \in 1..(i - 1) :
                   ~(model[j].req /\ model[j].ty = "str" /\ model[j].lo >= 1)].name

\* What a block holds that get_project cannot load: text that is not JSON, or
\* a list whose second record has an empty required field.
BadText(c, kind) ==
    IF kind = "malformed" THEN Malformed
    ELSE LET good == model_dump(Construct(ModelOf(c), FilledForm(c)))
         IN  JsonText(<< good, [good EXCEPT ![FirstRequired(ModelOf(c))] = ""] >>)

\* The blocks of a stored row that do not load.
BadBlocks(row) ==
    { c \in CollectionSet :
        /\ ColumnOf(c) \in DOMAIN row
        /\ \/ ~JsonParses(row[ColumnOf(c)])
           \/ \E i \in 1..Len(row[ColumnOf(c)].v) :
                  ~Validates(ModelOf(c), row[ColumnOf(c)].v[i]) }

\* The store holds one project written by an earlier run: the table may lack
\* newer columns, and at most one collection block of the row is bad.
LoadInit ==
    /\ \E missing \in SUBSET SeqToSet(required_columns) :
       \E bad \in CollectionSet \cup {"none"} :
       \E kind \in {"malformed", "invalid"} :
           /\ bad = "none" => kind = "malformed"
           /\ bad # "none" => ColumnOf(bad) \notin missing
           /\ table_exists = TRUE
           /\ columns = LegacyColumns(missing)
           /\ rows = [ id \in {0} |->
                        LET row == RowOf(LegacyColumns(missing), SampleAggregate, 0)
                        IN  IF bad = "none" THEN row
                            ELSE [row EXCEPT ![ColumnOf(bad)] = BadText(bad, kind)] ]
    /\ legacy = [exists |-> table_exists, columns |-> columns, rows |-> rows]
    /\ pc = [ p \in Procs |-> At("done", 0) ]
    /\ existing_columns = [ p \in Procs |-> {} ]
    /\ last = [op |-> "none", ok |-> TRUE, id |-> -1, agg |-> NoWC]
    /\ HandlerIdle

\* app.py at import: init_database().
StartApplication ==
    /\ SetDB(init_database(DB))
    /\ UNCHANGED << clock, wc, last, chosen, deleted, initvars, template_db, session_state >>

\* get_project(project_id), called by a page: last records the id, whether an
\* aggregate came back (ok) or None (agg unloaded), or that the call raised.
ReadProject(project_id) ==
    LET g == get_project(DB, project_id)
    IN  /\ SetDB(g.db)
        /\ last' = [op |-> IF g.status = "raise" THEN "get raised" ELSE "get",
                    ok |-> g.status = "ok", id |-> project_id,
                    agg |-> IF g.status = "ok" THEN g.val ELSE NoWC]
        /\ UNCHANGED << clock, wc, chosen, deleted, initvars, template_db, session_state >>

LoadNext ==
    \/ StartApplication
    \/ \E project_id \in {0, 1} : ReadProject(project_id)

SpecLoad == LoadInit /\ [][LoadNext]_vars

\* ------------------------------------------------- export and import
\* The value of a missing key of an import dict.
Absent == "<absent>"

\* data.get(key, default)
DictGet(data, key, default) == IF key \in DOMAIN data THEN data[key] ELSE default

\* export_project_data(project_id): None when get_project found no project.
export_project_data(d, project_id) ==
    LET g == get_project(d, project_id)
    IN  IF g.status # "ok" THEN g
        ELSE [status |-> "ok", db |-> g.db,
              val |-> [ k \in {"project_id", "template_type", "overview"} \cup CollectionSet |->
                          CASE k = "project_id" -> g.val.project_id
                            [] k = "template_type" -> g.val.template_type
                            [] k = "overview" -> model_dump(g.val.overview)
                            [] OTHER -> [ i \in 1..Len(g.val.colls[k]) |->
                                            model_dump(g.val.colls[k][i]) ] ]]

\* import_project_data(data): the overview and every record are constructed
\* from the dict (a missing overview or a validation error raises before
\* anything is stored), then create_project stores the aggregate.
import_project_data(d, data, t) ==
    IF \/ "overview" \notin DOMAIN data
       \/ ~Validates(OverviewModel, data["overview"])
       \/ \E c \in CollectionSet \cap DOMAIN data :
             \E i \in 1..Len(data[c]) : ~Validates(ModelOf(c), data[c][i])
    THEN [ok |-> FALSE, id |-> -1, db |-> d, agg |-> NoWC]
    ELSE LET agg == [project_id |-> -1,
                     template_type |-> DictGet(data, "template_type", "Normal"),
                     overview |-> Construct(OverviewModel, data["overview"]),
                     colls |-> [ c \in CollectionSet |->
                                   LET items == DictGet(data, c, <<>>)
                                   IN  [ i \in 1..Len(items) |->
                                           Construct(ModelOf(c), items[i]) ] ]]
             r == create_project(d, agg, t)
         IN  [ok |-> r.ok, id |-> r.id, db |-> r.db,
              agg |-> [agg EXCEPT !.project_id = r.id]]

\* A dict with the keys given: template_type unless Absent, and the two
\* collections that are present (has).
ImportDict(tt, ov, agents, uis) ==
    [ k \in {"overview"} \cup (IF tt = Absent THEN {} ELSE {"template_type"})
                         \cup (IF agents.has THEN {"agent_architectures"} ELSE {})
                         \cup (IF uis.has THEN {"ui_specifications"} ELSE {}) |->
        CASE k = "overview" -> ov
          [] k = "template_type" -> tt
          [] k = "agent_architectures" -> agents.v
          [] k = "ui_specifications" -> uis.v ]

\* The dicts a caller hands to import_project_data.
ImportDicts ==
    { ImportDict(tt, ov, agents, uis) :
        tt \in TemplateTypes \cup {Absent},
        ov \in { model_dump(SampleOverview),
                 [project_name |-> "", project_description |-> "Order"] },
        agents \in { [has |-> FALSE, v |-> <<>>], [has |-> TRUE, v |-> <<>>],
                     [has |-> TRUE, v |-> << FilledForm("agent_architectures") >>] },
        uis \in { [has |-> FALSE, v |-> <<>>],
                  [has |-> TRUE, v |-> << FilledForm("ui_specifications") >>],
                  [has |-> TRUE, v |-> << [screen_component |-> ""] >>] } }

\* A caller imports a dict: one of ImportDicts, or the export of a stored
\* project.
ImportProject(data) ==
    LET r == import_project_data(DB, data, clock)
    IN  /\ SetDB(r.db)
        /\ clock' = clock + 1
        /\ last' = [op |-> "import", ok |-> r.ok, id |-> r.id, agg |-> r.agg]
        /\ chosen' = IF r.ok
                     THEN [ id \in DOMAIN chosen \cup {r.id} |->
                              IF id = r.id THEN r.agg.template_type ELSE chosen[id] ]
                     ELSE chosen
        /\ deleted' = IF r.ok THEN deleted \ {r.id} ELSE deleted
        /\ UNCHANGED << wc, initvars, template_db, session_state >>

ExportAndImport(project_id) ==
    LET e == export_project_data(DB, project_id)
    IN  /\ e.status = "ok"
        /\ ImportProject(e.val)

ImportNext ==
    \/ /\ clock < MaxImportClock
       /\ \E data \in ImportDicts : ImportProject(data)
    \/ /\ clock < MaxImportClock
       /\ \E project_id \in DOMAIN rows : ExportAndImport(project_id)
    \/ LoadProject("s1")
    \/ /\ clock < MaxImportClock
       /\ \E ch \in OverviewEdits : SaveChanges("s1", ch)

SpecImport == Init /\ [][ImportNext]_vars

\* ------------------------------------------------- constructing a record
\* The fields whose values the pages offer as a fixed list (the select boxes
\* of src/app.py) and the field descriptions of the models enumerate.
FixedFields(c) ==
    CASE c = "ui_specifications" -> {"priority", "master_detail"}
      [] c = "api_specifications" -> {"method", "api_type"}
      [] c = "llm_prompts" -> {"model_name"}
      [] c = "database_schema" -> {"data_type", "relationship"}
      [] c = "tech_stack" -> {}
      [] c = "traceability_matrix" -> {"status"}
      [] c = "agent_architectures" -> {"agent_type", "communication_protocol"}
      [] c = "agent_configurations" -> {"parameter_type"}
      [] c = "agent_tasks" -> {"task_type"}

FixedSet(f) ==
    CASE f = "priority" -> {"Must", "Should", "Could", "Won't"}
      [] f = "master_detail" -> {"Master", "Detail", "N/A"}
      [] f = "method" -> {"GET", "POST", "PUT", "DELETE"}
      [] f = "api_type" -> {"Internal", "External (LLM)", "Third-Party"}
      [] f = "model_name" -> {"llama3.2", "mistral", "deepseek-r1", "phi4-mini"}
      [] f = "data_type" -> {"INT", "VARCHAR", "TEXT", "DATETIME", "BOOLEAN", "DECIMAL"}
      [] f = "relationship" -> {"N/A", "Primary", "Foreign", "Composite"}
      [] f = "status" -> {"Proposed", "Approved", "Implemented"}
      [] f = "agent_type" -> {"Autonomous", "Reactive", "Proactive", "Hybrid"}
      [] f = "communication_protocol" -> {"REST", "gRPC", "Message Queue", "WebSocket"}
      [] f = "parameter_type" -> {"string", "integer", "float", "boolean", "json"}
      [] f = "task_type" -> {"Data Processing", "Decision Making", "Communication",
                             "Coordination"}

\* The values a caller gives such a field: those of its list, and one text
\* that is not in it.
FixedChanges(c) ==
    {<<"", "">>} \cup
    UNION { { <<f, v>> : v \in FixedSet(f) \cup {"Order"} } : f \in FixedFields(c) }

\* Model(**d) called by any code of the application: the outcome is kept in
\* last (ok: no ValidationError was raised; out: the instance).
ConstructRecord(c, d) ==
    /\ last' = [op |-> "construct", ok |-> Validates(ModelOf(c), d), id |-> -1,
                agg |-> NoWC, kind |-> c, arg |-> d,
                out |-> IF Validates(ModelOf(c), d)
                        THEN Construct(ModelOf(c), d) ELSE << >>]
    /\ UNCHANGED << table_exists, columns, rows, clock, wc, chosen, deleted, initvars, template_db, session_state >>

ConstructNext ==
    \E c \in CollectionSet : \E ch1 \in FixedChanges(c) : \E ch2 \in FixedChanges(c) :
        /\ ConstructRecord(c, Change(Change(FilledForm(c), ch1), ch2))

SpecConstruct == Init /\ [][ConstructNext]_vars

\* ------------------------------------------------- the enhanced aggregate
\* EnhancedBRDProjectModel, reduced to the ids of its records and the ids they
\* refer to: agents (agent_id, tools_available), tasks (task_id,
\* assigned_agents, dependencies), tools (tool_id, associated_agents,
\* dependencies), agent_interactions (interaction_id, source_agent,
\* target_agent) and agent_llm_configs (agent_id).
RECURSIVE Flatten(_)
Flatten(ss) == IF Len(ss) = 0 THEN << >> ELSE Head(ss) \o Flatten(Tail(ss))

\* The items of refs that are not in ids, in the order of refs.
Unknown(refs, ids) == SelectSeq(refs, LAMBDA x : x \notin ids)

\* One error string per unknown id, kept as the tuple of the f-string's parts:
\* f"{kind} {record_id} references unknown {what} {x}".
Errors(kind, record_id, what, bad) ==
    [ k \in 1..Len(bad) |-> << kind, record_id, what, bad[k] >> ]

validate_agent_references(m) ==
    LET agent_ids == { m.agents[i].agent_id : i \in 1..Len(m.agents) }
    IN  Flatten([ i \in 1..Len(m.tasks) |->
                    Errors("Task", m.tasks[i].task_id, "references unknown agent",
                           Unknown(m.tasks[i].assigned_agents, agent_ids)) ])
        \o Flatten([ i \in 1..Len(m.tools) |->
                    Errors("Tool", m.tools[i].tool_id, "references unknown agent",
                           Unknown(m.tools[i].associated_agents, agent_ids)) ])
        \o Flatten([ i \in 1..Len(m.agent_interactions) |->
                    Errors("Interaction", m.agent_interactions[i].interaction_id,
                           "references unknown source agent",
                           Unknown(<< m.agent_interactions[i].source_agent >>, agent_ids))
                    \o Errors("Interaction", m.agent_interactions[i].interaction_id,
                           "references unknown target agent",
                           Unknown(<< m.agent_interactions[i].target_agent >>, agent_ids)) ])
        \o Flatten([ i \in 1..Len(m.agent_llm_configs) |->
                    Errors("LLM config", "", "references unknown agent",
                           Unknown(<< m.agent_llm_configs[i].agent_id >>, agent_ids)) ])

validate_task_dependencies(m) ==
    LET task_ids == { m.tasks[i].task_id : i \in 1..Len(m.tasks) }
    IN  Flatten([ i \in 1..Len(m.tasks) |->
                    Errors("Task", m.tasks[i].task_id, "references unknown dependency",
                           Unknown(m.tasks[i].dependencies, task_ids)) ])

validate_tool_dependencies(m) ==
    LET tool_ids == { m.tools[i].tool_id : i \in 1..Len(m.tools) }
    IN  Flatten([ i \in 1..Len(m.tools) |->
                    Errors("Tool", m.tools[i].tool_id, "references unknown dependency",
                           Unknown(m.tools[i].dependencies, tool_ids)) ])

validate_all(m) ==
    validate_agent_references(m) \o validate_task_dependencies(m)
        \o validate_tool_dependencies(m)

\* The aggregates validate_all is called on: at most one record of each kind,
\* each reference list empty, one id, or two ids.
IdLists(a, b) == { << >>, << a >>, << b >>, << a, b >>, << b, b >> }

AtMostOne(S) == { << >> } \cup { << x >> : x \in S }

EnhancedAggregates ==
    [ agents : AtMostOne([agent_id : {"AGENT-001"},
                          tools_available : {<< >>, <<"TOOL-001">>, <<"TOOL-002">>}]),
      tasks : AtMostOne([task_id : {"TASK-001"},
                         assigned_agents : IdLists("AGENT-001", "AGENT-002"),
                         dependencies : {<< >>, <<"TASK-001">>, <<"TASK-002">>}]),
      tools : AtMostOne([tool_id : {"TOOL-001"},
                         associated_agents : {<< >>, <<"AGENT-001">>, <<"AGENT-002">>},
                         dependencies : {<< >>, <<"TOOL-001">>, <<"TOOL-002">>}]),
      agent_interactions : AtMostOne([interaction_id : {"INTERACTION-001"},
                                      source_agent : {"AGENT-001", "AGENT-002"},
                                      target_agent : {"AGENT-001", "AGENT-002"}]),
      agent_llm_configs : AtMostOne([agent_id : {"AGENT-001", "AGENT-002"}]) ]

\* The started application, and an aggregate some caller has built (last.arg).
ValidateInit ==
    /\ table_exists = TRUE
    /\ columns = AllColumns
    /\ rows = EmptyRows
    /\ clock = 0
    /\ wc = [ s \in Sessions |-> NoWC ]
    /\ \E m \in EnhancedAggregates :
          last = [op |-> "aggregate", ok |-> TRUE, id |-> -1, agg |-> NoWC, arg |-> m]
    /\ chosen = [ id \in {} |-> "" ]
    /\ deleted = {}
    /\ session_state = [ s \in Sessions |-> FreshSession ]
    /\ template_db = NoTemplates
    /\ pc = [ p \in Procs |-> At("done", 0) ]
    /\ existing_columns = [ p \in Procs |-> {} ]
    /\ legacy = [exists |-> TRUE, columns |-> AllColumns, rows |-> EmptyRows]

\* project.validate_all(), its result kept in last (ok: no error returned).
ValidateAll ==
    /\ last.op = "aggregate"
    /\ last' = [op |-> "validate_all", ok |-> validate_all(last.arg) = << >>, id |-> -1,
                agg |-> NoWC, arg |-> last.arg, out |-> validate_all(last.arg)]
    /\ UNCHANGED << table_exists, columns, rows, clock, wc, chosen, deleted, initvars, template_db, session_state >>

ValidateNext == ValidateAll

SpecValidate == ValidateInit /\ [][ValidateNext]_vars

\* ------------------------------------------------- export to Excel
\* A worksheet: its title and its rows (tuples of cell values), header first.
Sheet(title, sheet_rows) == [title |-> title, rows |-> sheet_rows]

\* wb.create_sheet(title, index): the sheet list's insert(index, ws), which
\* appends when index is beyond the end.
create_sheet(wb, ws, index) ==
    IF index >= Len(wb) THEN Append(wb, ws)
    ELSE SubSeq(wb, 1, index) \o << ws >> \o SubSeq(wb, index + 1, Len(wb))

\* A test that every list passes (hasattr alone).
ListTruthyAlways(q) == TRUE

\* len(list) > 0, the truth value of a list.
ListTruthy(q) == Len(q) > 0

\* A column of a record sheet: header text, field, kind of value and the
\* value written in place of a falsy one (`field or dflt`).
Col(header, field, kind, dflt) ==
    [header |-> header, field |-> field, kind |-> kind, dflt |-> dflt]
Txt(header, field, dflt) == Col(header, field, "str", dflt)

SheetTitle(c) ==
    CASE c = "ui_specifications" -> "2. UI Specification"
      [] c = "api_specifications" -> "3. API Specification"
      [] c = "llm_prompts" -> "4. LLM Prompts"
      [] c = "database_schema" -> "5. Database Schema"
      [] c = "tech_stack" -> "6. Tech Stack & VC"
      [] c = "traceability_matrix" -> "7. Traceability Matrix"
      [] c = "agent_architectures" -> "8. Agent Architecture"
      [] c = "agent_configurations" -> "9. Agent Configuration"
      [] c = "agent_tasks" -> "10. Agent Tasks"

SheetColumns(c) ==
    CASE c = "ui_specifications" ->
           << Txt("Screen/Component", "screen_component", ""),
              Txt("Requirement Description", "requirement_description", ""),
              Txt("Business Rule", "business_rule", ""),
              Txt("Requirement ID", "requirement_id", ""),
              Txt("Feature/Module", "feature_module", "") >>
      [] c = "api_specifications" ->
           << Txt("API ID", "api_id", ""), Txt("API Name", "api_name", ""),
              Txt("Method", "method", "POST"), Txt("Endpoint", "endpoint", ""),
              Txt("Request Payload", "request_payload", ""),
              Txt("Response Payload", "response_payload", ""),
              Txt("Business Rule", "business_rule", ""),
              Txt("API Type", "api_type", "") >>
      [] c = "llm_prompts" ->
           << Txt("Prompt ID", "prompt_id", ""), Txt("Use Case", "use_case", ""),
              Txt("Model", "model_name", "llama3.2"),
              Col("Temperature", "temperature", "float", 70),
              Txt("Input Variables", "input_variables", ""),
              Txt("Prompt Template", "prompt_template", ""),
              Txt("Expected Output", "expected_output", "") >>
      [] c = "database_schema" ->
           << Txt("Table Name", "table_name", ""), Txt("Field Name", "field_name", ""),
              Txt("Data Type", "data_type", "VARCHAR"),
              Txt("Constraints", "constraints", ""),
              Txt("Relationship", "relationship", "N/A"),
              Txt("Description", "description", "") >>
      [] c = "tech_stack" ->
           << Txt("Category", "category", ""),
              Txt("Technology/Tool", "technology_tool", ""),
              Txt("Version", "version", ""), Txt("Rationale", "rationale", ""),
              Txt("Repository URL", "repository_url", "") >>
      [] c = "traceability_matrix" ->
           << Txt("Requirement ID", "business_requirement_id", ""),
              Txt("Business Requirement", "business_requirement", ""),
              Txt("Linked UI IDs", "linked_ui_id", ""),
              Txt("Linked API IDs", "linked_api_id", ""),
              Txt("Linked LLM IDs", "linked_llm_id", ""),
              Txt("Status", "status", "Proposed") >>
      [] c = "agent_architectures" ->
           << Txt("Agent ID", "agent_id", ""), Txt("Agent Name", "agent_name", ""),
              Txt("Agent Type", "agent_type", ""),
              Txt("Primary Role", "primary_role", ""),
              Txt("Capabilities", "capabilities", ""),
              Txt("Dependencies", "dependencies", ""),
              Txt("Communication Protocol", "communication_protocol", "REST"),
              Txt("Description", "description", "") >>
      [] c = "agent_configurations" ->
           << Txt("Config ID", "config_id", ""), Txt("Agent ID", "agent_id", ""),
              Txt("Parameter Name", "parameter_name", ""),
              Txt("Parameter Value", "parameter_value", ""),
              Txt("Parameter Type", "parameter_type", "string"),
              Txt("Description", "description", ""),
              Col("Required", "required", "bool", "No") >>
      [] c = "agent_tasks" ->
           << Txt("Task ID", "task_id", ""), Txt("Agent ID", "agent_id", ""),
              Txt("Task Name", "task_name", ""), Txt("Task Type", "task_type", ""),
              Txt("Input Data", "input_data", ""), Txt("Output Data", "output_data", ""),
              Txt("Success Criteria", "success_criteria", ""),
              Txt("Error Handling", "error_handling", ""),
              Txt("Description", "description", "") >>

\* One cell of a data row: `value or dflt` ("", None, 0.0 are falsy), and
\* "Yes" if config.required else "No".
CellValue(col, rec) ==
    CASE col.kind = "float" -> IF rec[col.field] = 0 THEN col.dflt ELSE rec[col.field]
      [] col.kind = "bool" -> IF rec[col.field] THEN "Yes" ELSE "No"
      [] OTHER -> IF Truthy(rec[col.field]) THEN rec[col.field] ELSE col.dflt

\* create_*_sheet of a collection: the header row, then one row per record.
RecordSheet(c, recs) ==
    LET cols == SheetColumns(c)
    IN  Sheet(SheetTitle(c),
              << [ k \in 1..Len(cols) |-> cols[k].header ] >>
              \o [ i \in 1..Len(recs) |->
                     [ k \in 1..Len(cols) |-> CellValue(cols[k], recs[i]) ] ])

\* str(datetime.now())
str_datetime(t) == << "datetime", t >>

create_overview_sheet(agg, t) ==
    LET TextOr(v) == IF Truthy(v) THEN v ELSE ""
    IN  Sheet("1. Overview",
              << << "Field", "Value" >>,
                 << "Project Name", TextOr(agg.overview.project_name) >>,
                 << "Project Description", TextOr(agg.overview.project_description) >>,
                 << "Business Goal", TextOr(agg.overview.business_goal) >>,
                 << "Document Version", TextOr(agg.overview.document_version) >>,
                 << "Prepared By", TextOr(agg.overview.prepared_by) >>,
                 << "Approved By", TextOr(agg.overview.approved_by) >>,
                 << "Target Release Date", TextOr(agg.overview.target_release_date) >>,
                 << "Created At", str_datetime(t) >> >>)

\* The workbook after the create_*_sheet calls from position `from` of
\* Collections on: the agent sheets only when their collection holds data.
RECURSIVE AddSheets(_, _, _)
AddSheets(wb, agg, from) ==
    IF from > Len(Collections) THEN wb
    ELSE LET c == Collections[from]
         IN  IF c \in AgentCollections /\ ~ListTruthy(agg.colls[c])
             THEN AddSheets(wb, agg, from + 1)
             ELSE AddSheets(create_sheet(wb, RecordSheet(c, agg.colls[c]), from),
                            agg, from + 1)

\* export_to_excel(brd_project): the sheets of the workbook saved.
export_to_excel(agg, t) ==
    AddSheets(create_sheet(<< >>, create_overview_sheet(agg, t), 0), agg, 1)

\* The projects exported: every collection empty, or holding one or two
\* records; the prompts at each end of the temperature range and inside it.
ExportRecords(c) ==
    LET r == Construct(ModelOf(c), FilledForm(c))
    IN  CASE c = "ui_specifications" ->
               { << >>, << r >>, << r, [r EXCEPT !.priority = "Could"] >> }
          [] c = "llm_prompts" ->
               { << >>, << [r EXCEPT !.temperature = 0] >>, << r >>,
                 << [r EXCEPT !.temperature = 200], r >> }
          [] c = "agent_configurations" ->
               { << >>, << r >>, << [r EXCEPT !.required = TRUE] >> }
          [] OTHER -> { << >>, << r >> }

ExportAggregates ==
    { [ BRDProjectModel(0, "Agentic", SampleOverview) EXCEPT !.colls =
          [ c \in CollectionSet |->
              CASE c = "ui_specifications" -> ui
                [] c = "llm_prompts" -> llm
                [] c = "agent_architectures" -> arch
                [] c = "agent_configurations" -> conf
                [] c = "agent_tasks" -> task
                [] OTHER -> IF rest THEN << Construct(ModelOf(c), FilledForm(c)) >>
                            ELSE << >> ] ] :
        ui \in ExportRecords("ui_specifications"),
        llm \in ExportRecords("llm_prompts"),
        arch \in ExportRecords("agent_architectures"),
        conf \in ExportRecords("agent_configurations"),
        task \in ExportRecords("agent_tasks"),
        rest \in BOOLEAN }

\* A project some earlier run has stored, one of ExportAggregates.
ExportInit ==
    /\ table_exists = TRUE
    /\ columns = AllColumns
    /\ \E agg \in ExportAggregates : rows = [ id \in {0} |-> RowOf(AllColumns, agg, 0) ]
    /\ clock = 1
    /\ wc = [ s \in Sessions |-> NoWC ]
    /\ last = [op |-> "none", ok |-> TRUE, id |-> -1, agg |-> NoWC]
    /\ chosen = [ id \in {0} |-> "Agentic" ]
    /\ deleted = {}
    /\ session_state = [ s \in Sessions |-> FreshSession ]
    /\ template_db = NoTemplates
    /\ pc = [ p \in Procs |-> At("done", 0) ]
    /\ existing_columns = [ p \in Procs |-> {} ]
    /\ legacy = [exists |-> TRUE, columns |-> AllColumns, rows |-> rows]

\* show_manage_projects, "Export to Excel" pressed: export_to_excel writes the
\* workbook of the project the page holds (last.out: its sheets).
ExportToExcel(s) ==
    /\ wc[s].loaded
    /\ last' = [op |-> "export", ok |-> TRUE, id |-> wc[s].agg.project_id,
                agg |-> wc[s].agg, out |-> export_to_excel(wc[s].agg, clock)]
    /\ UNCHANGED << table_exists, columns, rows, clock, wc, chosen, deleted, initvars, template_db, session_state >>

ExportNext ==
    \/ LoadProject("s1")
    \/ ExportToExcel("s1")

SpecExport == ExportInit /\ [][ExportNext]_vars

\* ------------------------------------------------- the Ollama gateway
\* What requests.post(url, json=payload, timeout=300) meets: the service
\* answers 200 with a body, answers with an HTTP error status, cannot be
\* connected to, or does not answer within the timeout.
ServiceStates == {"answers", "http error", "unreachable", "timeout"}

\* The bodies of a 200 answer: the streamed lines (and, not streamed, the
\* one JSON document).  A line is a JSON object with or without a "response"
\* key, text that is not JSON, or empty (a keep-alive).
Chunk(text) == [t |-> "json", has |-> TRUE, response |-> text]
NoResponseKey == [t |-> "json", has |-> FALSE, response |-> ""]
NotJson == [t |-> "malformed", has |-> FALSE, response |-> ""]
EmptyLine == [t |-> "empty", has |-> FALSE, response |-> ""]

ServiceBodies ==
    { << Chunk("Tracks customer orders end to end") >>,
      << Chunk("Order"), EmptyLine, Chunk(" List") >>,
      << NotJson, Chunk("Order") >>,
      << NoResponseKey >>,
      << NotJson >> }

\* The outcome of a call that returns a value (kind "text": a str, or the
\* chunks a generator yielded).  Both functions catch every exception, so no
\* call ends in another kind of outcome.
Returned(value) == [kind |-> "text", value |-> value]

ConnectionErrorText ==
    "Error: Could not connect to Ollama. Make sure Ollama is running on http://localhost:11434"
TimeoutText == "Error: Request timed out. Ollama is taking too long to respond."
\* f"Error: {str(e)}" of any other exception.
OtherErrorText(e) == << "Error: ", e >>

\* The chunks the loop over response.iter_lines() yields.
StreamedChunks(body) ==
    LET good == SelectSeq(body, LAMBDA line : line.t = "json" /\ line.has)
    IN  [ i \in 1..Len(good) |-> good[i].response ]

\* _stream_ollama_response, consumed to its end: one POST; the chunks of the
\* answer, or one chunk holding the text of the error.
stream_ollama_response(service, body) ==
    [ attempts |-> 1,
      result |-> CASE service = "answers" -> Returned(StreamedChunks(body))
                   [] service = "unreachable" -> Returned(<< ConnectionErrorText >>)
                   [] service = "timeout" -> Returned(<< TimeoutText >>)
                   [] service = "http error" -> Returned(<< OtherErrorText("HTTPError") >>) ]

\* generate_completion: one POST; data.get("response", "") of the JSON
\* document, or the text of the error.
generate_completion(service, body) ==
    [ attempts |-> 1,
      result |-> CASE service = "answers" ->
                        IF body[1].t # "json"
                        THEN Returned(OtherErrorText("JSONDecodeError"))
                        ELSE Returned(IF body[1].has THEN body[1].response ELSE "")
                   [] service = "unreachable" -> Returned(OtherErrorText("ConnectionError"))
                   [] service = "timeout" -> Returned(OtherErrorText("Timeout"))
                   [] service = "http error" -> Returned(OtherErrorText("HTTPError")) ]

GatewayModels == {"llama3.2", "mistral", "deepseek-r1", "phi4-mini"}

\* A caller asks the gateway for text (fn: which of its two functions) while
\* the service is in some state; last keeps the call and its outcome.
Generate(fn, model, temperature, service, body) ==
    LET r == IF fn = "generate_completion" THEN generate_completion(service, body)
             ELSE stream_ollama_response(service, body)
    IN  /\ last' = [op |-> fn, ok |-> r.result.kind = "text", id |-> -1, agg |-> NoWC,
                    arg |-> [model |-> model, temperature |-> temperature],
                    service |-> service, attempts |-> r.attempts, result |-> r.result]
        /\ UNCHANGED << table_exists, columns, rows, clock, wc, chosen, deleted, initvars, template_db, session_state >>

GatewayNext ==
    \E fn \in {"generate_completion", "_stream_ollama_response"} :
    \E model \in GatewayModels : \E temperature \in {0, 70} :
    \E service \in ServiceStates : \E body \in ServiceBodies :
        Generate(fn, model, temperature, service, body)

SpecGateway == Init /\ [][GatewayNext]_vars

\* ================================================================ claims
\* The handlers that write a project: create_project and update_project.
WriteOps == {"create", "save", "add", "edit", "remove"}
UpdateOps == {"save", "add", "edit", "remove"}

\* Every field of the overview and of every record meets its constraints.
ValidAggregate(agg) ==
    /\ Validates(OverviewModel, agg.overview)
    /\ \A c \in CollectionSet : \A i \in 1..Len(agg.colls[c]) :
           Validates(ModelOf(c), agg.colls[c][i])

\* The loaded records are the stored list, item by item and field by field.
StoredEqual(recs, txt) ==
    /\ Len(recs) = Len(txt.v)
    /\ \A i \in 1..Len(recs) : model_dump(recs[i]) = txt.v[i]

\* C1: whenever a handler has saved a valid aggregate with create_project or
\* update_project and reported success, get_project of its id returns the
\* same template kind, overview fields and records of all nine collections.
C1_SaveLoadRoundTrip ==
    (last.op \in WriteOps /\ last.ok /\ ValidAggregate(last.agg)) =>
        LET g == get_project(DB, last.id)
        IN  /\ g.status = "ok"
            /\ g.val.template_type = last.agg.template_type
            /\ g.val.overview = last.agg.overview
            /\ \A c \in CollectionSet : g.val.colls[c] = last.agg.colls[c]

\* The round trip of C1 where update_project found a row to write.
C1_RoundTripOfStoredRow ==
    (last.op \in WriteOps /\ last.ok /\ ValidAggregate(last.agg)
        /\ last.id \in DOMAIN rows) =>
        LET g == get_project(DB, last.id)
        IN  /\ g.status = "ok"
            /\ g.val.template_type = last.agg.template_type
            /\ g.val.overview = last.agg.overview
            /\ \A c \in CollectionSet : g.val.colls[c] = last.agg.colls[c]

\* C2: in every state of the store, the persisted overview and every record
\* of every persisted collection block meet the field constraints of their
\* kind (no handler writes a record an edit has made invalid).
C2_PersistedRecordsValid ==
    \A id \in DOMAIN rows :
        /\ JsonParses(rows[id]["overview_json"])
        /\ Validates(OverviewModel, rows[id]["overview_json"].v)
        /\ \A c \in CollectionSet :
               /\ JsonParses(rows[id][ColumnOf(c)])
               /\ \A i \in 1..Len(rows[id][ColumnOf(c)].v) :
                      Validates(ModelOf(c), rows[id][ColumnOf(c)].v[i])

\* C3: after any sequence of creates, adds, edits, removals and saves, every
\* stored project loads, and saving the loaded aggregate again leaves every
\* column of its row as it was, except updated_at.
C3_LoadSaveIdempotent ==
    \A id \in DOMAIN rows :
        LET g == get_project(DB, id)
        IN  /\ g.status = "ok"
            /\ \A col \in DOMAIN rows[id] \ {"updated_at"} :
                   update_project(g.db, g.val, clock).rows[id][col] = rows[id][col]

\* The idempotence of C3 for the rows whose overview and records are valid.
C3_IdempotentOnValidRows ==
    \A id \in DOMAIN rows :
        ( /\ Validates(OverviewModel, rows[id]["overview_json"].v)
          /\ \A c \in CollectionSet : \A i \in 1..Len(rows[id][ColumnOf(c)].v) :
                 Validates(ModelOf(c), rows[id][ColumnOf(c)].v[i]) ) =>
            LET g == get_project(DB, id)
            IN  /\ g.status = "ok"
                /\ \A col \in DOMAIN rows[id] \ {"updated_at"} :
                       update_project(g.db, g.val, clock).rows[id][col] = rows[id][col]

\* C4: after a handler has saved an aggregate with update_project, the store
\* holds a row under the aggregate's id (inserted when there was none) whose
\* content columns are those of the aggregate.
C4_SaveInsertsOrOverwrites ==
    (last.op \in UpdateOps /\ last.ok) =>
        /\ last.id \in DOMAIN rows
        /\ \A col \in DOMAIN rows[last.id] \ {"project_id", "created_at", "updated_at"} :
               rows[last.id][col] = ContentValue(last.agg, col)

\* The second half of C4 alone: a save onto an existing row overwrites it.
C4_SaveOverwritesStoredRow ==
    (last.op \in UpdateOps /\ last.ok /\ last.id \in DOMAIN rows) =>
        \A col \in DOMAIN rows[last.id] \ {"project_id", "created_at", "updated_at"} :
            rows[last.id][col] = ContentValue(last.agg, col)

\* C5: when exactly one collection block of a stored row is malformed JSON or
\* holds a record failing the schema, get_project does not raise and returns
\* an aggregate with exactly that collection empty, the overview and every
\* other stored collection equal to the stored content.
C5_OneBadBlockOnlyEmptiesItself ==
    (/\ last.op \in {"get", "get raised"}
     /\ last.id \in DOMAIN legacy.rows
     /\ Cardinality(BadBlocks(legacy.rows[last.id])) = 1) =>
        LET row == legacy.rows[last.id]
        IN  /\ last.op = "get" /\ last.ok
            /\ model_dump(last.agg.overview) = row["overview_json"].v
            /\ \A c \in CollectionSet :
                   IF c \in BadBlocks(row) THEN last.agg.colls[c] = << >>
                   ELSE ColumnOf(c) \in DOMAIN row =>
                            /\ last.agg.colls[c] # << >>
                            /\ StoredEqual(last.agg.colls[c], row[ColumnOf(c)])

\* C5 witness: a row whose llm_prompts block holds a schema-failing record has
\* been loaded with only that collection empty.
C5_Witness ==
    /\ last.op = "get" /\ last.ok /\ last.id = 0
    /\ BadBlocks(legacy.rows[0]) = {"llm_prompts"}
    /\ JsonParses(legacy.rows[0]["llm_prompts_json"])
    /\ last.agg.colls["llm_prompts"] = << >>
    /\ Len(last.agg.colls["ui_specifications"]) = 1
    /\ Len(last.agg.colls["traceability_matrix"]) = 1

\* C6: in a store whose table lacked template_type and/or agent columns, no
\* row is ever lost or changed in the columns it had, and get_project of a
\* stored project does not raise and returns template kind "Normal" and empty
\* collections for the missing columns, every loadable block it had unchanged.
C6_LegacyRowLoads ==
    /\ DOMAIN rows = DOMAIN legacy.rows
    /\ \A id \in DOMAIN legacy.rows : \A col \in DOMAIN legacy.rows[id] :
           rows[id][col] = legacy.rows[id][col]
    /\ (last.op \in {"get", "get raised"} /\ last.id \in DOMAIN legacy.rows) =>
           LET row == legacy.rows[last.id]
           IN  /\ last.op = "get" /\ last.ok
               /\ last.agg.template_type =
                      IF "template_type" \in DOMAIN row THEN row["template_type"] ELSE "Normal"
               /\ model_dump(last.agg.overview) = row["overview_json"].v
               /\ \A c \in CollectionSet :
                      IF ColumnOf(c) \notin DOMAIN row THEN last.agg.colls[c] = << >>
                      ELSE c \notin BadBlocks(row) =>
                               StoredEqual(last.agg.colls[c], row[ColumnOf(c)])

\* C6 witness: a project stored without any of the four newer columns has
\* been loaded as "Normal" with its six blocks and no agent record.
C6_Witness ==
    /\ last.op = "get" /\ last.ok /\ last.id = 0
    /\ SeqToSet(legacy.columns) \cap SeqToSet(required_columns) = {}
    /\ BadBlocks(legacy.rows[0]) = {}
    /\ last.agg.template_type = "Normal"
    /\ \A c \in AgentCollections : last.agg.colls[c] = << >>
    /\ \A c \in FormCollections : Len(last.agg.colls[c]) = 1

\* How often a column name occurs in the table.
Occurrences(q, x) == Cardinality({ i \in 1..Len(q) : q[i] = x })

AllDone == \A p \in Procs : pc[p].at = "done"

\* C7: when two init_database runs interleave on a table that existed before
\* them, neither raises nor gets stuck, and once both are done the table has
\* each of the four newer columns, and each column it had, exactly once, every
\* row with the values it had, and a further init_database changes nothing.
C7_ConcurrentMigration ==
    legacy.exists =>
        /\ \A p \in Procs : pc[p].at # "raised"
        /\ AllDone \/ ENABLED MigrateNext
        /\ AllDone =>
             /\ \A i \in 1..Len(required_columns) :
                    Occurrences(columns, required_columns[i]) = 1
             /\ \A j \in 1..Len(legacy.columns) :
                    Occurrences(columns, legacy.columns[j]) = 1
             /\ DOMAIN rows = DOMAIN legacy.rows
             /\ \A id \in DOMAIN rows :
                    /\ DOMAIN rows[id] = SeqToSet(columns)
                    /\ \A col \in DOMAIN legacy.rows[id] :
                           rows[id][col] = legacy.rows[id][col]
             /\ init_database(DB) = DB

\* C7 witness: both runs read a table lacking all four columns before either
\* altered it, both are done, and the table holds a row.
C7_Witness ==
    /\ legacy.exists /\ AllDone
    /\ DOMAIN rows # {}
    /\ SeqToSet(legacy.columns) \cap SeqToSet(required_columns) = {}
    /\ \A p \in Procs : existing_columns[p] = SeqToSet(legacy.columns)
    /\ Len(columns) = Len(AllColumns)

\* C8: a deleted project stays gone until a project is created under its id
\* again: get_project returns None for it and no listing has a summary of it;
\* and a "Delete Project" step removes the row of its id and changes no other.
C8_DeletedStaysGone ==
    /\ [](\A id \in deleted :
            /\ get_project(DB, id).status = "none"
            /\ \A L \in list_projects(DB) : \A i \in 1..Len(L) : L[i].project_id # id)
    /\ [][\A s \in Sessions :
            DeleteProject(s) =>
                /\ wc[s].agg.project_id \notin DOMAIN rows'
                /\ \A id \in DOMAIN rows \ {wc[s].agg.project_id} :
                       id \in DOMAIN rows' /\ rows'[id] = rows[id]]_vars

\* C8 witness: a project has been deleted, and a session that had loaded it
\* before the delete has saved it since.
C8_Witness ==
    /\ last.op \in UpdateOps
    /\ last.ok
    /\ last.id \in deleted

\* C9: every listing has exactly one summary per stored project, in
\* descending updated_at order, and when the last successful write was to a
\* project still stored, that project is the first entry.
C9_ListMostRecentFirst ==
    \A L \in list_projects(DB) :
        /\ Len(L) = Cardinality(DOMAIN rows)
        /\ \A id \in DOMAIN rows :
               Cardinality({ i \in 1..Len(L) : L[i].project_id = id }) = 1
        /\ \A i \in 1..Len(L) : L[i] = Summary(rows[L[i].project_id])
        /\ \A i, j \in 1..Len(L) :
               i < j => ~TextLess(L[i].updated_at, L[j].updated_at)
        /\ (last.op \in WriteOps /\ last.ok /\ last.id \in DOMAIN rows) =>
               L[1].project_id = last.id

\* C9 witness: of two stored projects the one created first was saved last and
\* is listed first.
C9_Witness ==
    /\ Cardinality(DOMAIN rows) = 2
    /\ last.op \in UpdateOps
    /\ last.id \in DOMAIN rows
    /\ \E id \in DOMAIN rows :
           TextLess(rows[last.id]["created_at"], rows[id]["created_at"])
    /\ \A L \in list_projects(DB) : L[1].project_id = last.id

\* C10: every stored project has the id it was created under and the
\* template kind chosen at that creation.
C10_TemplateKindFixed ==
    \A id \in DOMAIN rows :
        /\ rows[id]["project_id"] = id
        /\ id \in DOMAIN chosen
        /\ rows[id]["template_type"] = chosen[id]

\* C11: every successful create_project returns an id that no earlier
\* successful create_project has returned (chosen is defined for exactly the
\* ids returned so far), whatever was created and deleted before.
C11_CreatedIdsUnique ==
    [][(clock' = clock + 1 /\ last'.op = "create" /\ last'.ok) =>
           last'.id \notin DOMAIN chosen]_vars

\* C12: every stored row has updated_at >= created_at (as the stored texts
\* compare), and a step that keeps a row leaves its created_at as it was and
\* never moves its updated_at back.
C12_UpdatedNotBeforeCreated ==
    /\ [](\A id \in DOMAIN rows :
            ~TextLess(rows[id]["updated_at"], rows[id]["created_at"]))
    /\ [][\A id \in DOMAIN rows \cap DOMAIN rows' :
            \/ /\ last'.op = "create" /\ last'.ok /\ last'.id = id /\ clock' = clock + 1
            \/ /\ rows'[id]["created_at"] = rows[id]["created_at"]
               /\ ~TextLess(rows'[id]["updated_at"], rows[id]["updated_at"])]_vars

\* C12 witness: a row created in one second and last saved in a later one.
C12_Witness ==
    /\ last.op \in UpdateOps
    /\ last.id \in DOMAIN rows
    /\ rows[last.id]["created_at"] = isoformat(0)
    /\ rows[last.id]["updated_at"] = isoformat(TicksPerSecond)

\* ------------------------------------------------- one project, edited
\* One session edits the records of one stored project: a project created at
\* second 0 from the "Agentic" template, with no record yet.
OrderCollections == {"ui_specifications", "agent_tasks"}

\* What the user changes in the add form before submitting it.
OrderChanges(c) ==
    {<<"", "">>} \cup
    ( CASE c = "ui_specifications" -> {<<"priority", "Could">>}
        [] c = "agent_tasks" -> {<<"task_name", "Order">>, <<"task_id", "BR-001">>} )

OrderInit ==
    LET agg == BRDProjectModel(-1, "Agentic", SampleOverview)
        r == create_project([exists |-> TRUE, columns |-> AllColumns, rows |-> EmptyRows],
                            agg, 0)
    IN  /\ table_exists = TRUE
        /\ columns = AllColumns
        /\ rows = r.db.rows
        /\ clock = 1
        /\ wc = [ s \in Sessions |-> NoWC ]
        /\ last = [op |-> "create", ok |-> TRUE, id |-> r.id,
                   agg |-> [agg EXCEPT !.project_id = r.id]]
        /\ chosen = [ id \in {r.id} |-> "Agentic" ]
        /\ deleted = {}
        /\ session_state = [ s \in Sessions |-> FreshSession ]
        /\ template_db = NoTemplates
        /\ pc = [ p \in Procs |-> At("done", 0) ]
        /\ existing_columns = [ p \in Procs |-> {} ]
        /\ legacy = r.db

OrderNext ==
    \/ LoadProject("s1")
    \/ /\ clock < MaxOrderClock
       /\ \E c \in OrderCollections : \E ch \in OrderChanges(c) :
              /\ wc["s1"].loaded
              /\ Len(wc["s1"].agg.colls[c]) < MaxOrderRecs
              /\ AddRecord("s1", c, ch)
    \/ /\ clock < MaxOrderClock
       /\ \E c \in OrderCollections \cap FormCollections :
          \E i \in 1..MaxOrderRecs : \E ch \in FormChanges(c) :
              EditRecord("s1", c, i, ch)
    \/ /\ clock < MaxOrderClock
       /\ \E c \in OrderCollections : \E i \in 1..MaxOrderRecs :
              DeleteRecord("s1", c, i)

SpecOrder == OrderInit /\ [][OrderNext]_vars

\* r holds items of q, in the order they have in q.
RECURSIVE InOrderOf(_, _)
InOrderOf(r, q) ==
    IF Len(r) = 0 THEN TRUE
    ELSE IF Len(q) = 0 THEN FALSE
    ELSE IF Head(r) = Head(q) THEN InOrderOf(Tail(r), Tail(q))
    ELSE InOrderOf(r, Tail(q))

\* C13: each collection keeps insertion order.  An add stores the collection
\* the page held with the new record last; a removal stores it with one record
\* less and the others in the order they had; get_project returns the
\* records of the aggregate last saved in their saved order (all of them when
\* every record of the block validates).
C13_CollectionsKeepOrder ==
    [][\A s \in Sessions : \A c \in CollectionSet :
         /\ (wc[s].loaded /\ clock' = clock + 1 /\ wc'[s] = NoWC /\ last'.op = "add")
              => LET old == wc[s].agg.colls[c]
                     new == last'.agg.colls[c]
                 IN  \/ new = old
                     \/ Len(new) = Len(old) + 1 /\ SubSeq(new, 1, Len(old)) = old
         /\ (wc[s].loaded /\ clock' = clock + 1 /\ wc'[s] = NoWC /\ last'.op = "remove")
              => LET old == wc[s].agg.colls[c]
                     new == last'.agg.colls[c]
                 IN  \/ new = old
                     \/ Len(new) = Len(old) - 1 /\ InOrderOf(new, old)
         /\ (wc'[s].loaded /\ wc' # wc /\ last.op \in UpdateOps
               /\ last.id = wc'[s].agg.project_id)
              => LET saved == last.agg.colls[c]
                     got == wc'[s].agg.colls[c]
                 IN  /\ InOrderOf(got, saved)
                     /\ (\A i \in 1..Len(saved) : Validates(ModelOf(c), saved[i]))
                          => got = saved]_vars

\* C13 witness: a collection loaded after a removal, holding two different
\* records in the order they were saved in.
C13_Witness ==
    /\ last.op = "remove"
    /\ wc["s1"].loaded
    /\ wc["s1"].agg.project_id = last.id
    /\ \E c \in OrderCollections :
          /\ Len(wc["s1"].agg.colls[c]) = 2
          /\ wc["s1"].agg.colls[c][1] # wc["s1"].agg.colls[c][2]
          /\ wc["s1"].agg.colls[c] = last.agg.colls[c]

\* C14: adding, editing or removing a record changes the aggregate in memory
\* only: the step of such a handler leaves every stored row as it was (rows
\* change only with create, Save Changes and Delete Project).
C14_RecordEditsStayInMemory ==
    [][(clock' = clock + 1 /\ last'.op \in {"add", "edit", "remove"}) => rows' = rows]_vars

\* C15: a project whose template type is "Normal" has no agent architecture,
\* agent configuration or agent task, neither in its stored row nor in the
\* aggregate a page holds.
C15_NormalHasNoAgents ==
    /\ \A id \in DOMAIN rows :
          LoadTemplateType(rows[id]) = "Normal" =>
              \A c \in AgentCollections :
                  ColumnOf(c) \in DOMAIN rows[id] =>
                      \/ rows[id][ColumnOf(c)].t = "null"
                      \/ rows[id][ColumnOf(c)].v = <<>>
    /\ \A s \in Sessions :
          (wc[s].loaded /\ wc[s].agg.template_type = "Normal") =>
              \A c \in AgentCollections : wc[s].agg.colls[c] = <<>>

\* C16: constructing a record with a value outside the fixed set of one of its
\* enumerated fields fails with a validation error.
C16_FixedSetsEnforced ==
    last.op = "construct" =>
        ((\E f \in FixedFields(last.kind) : last.arg[f] \notin FixedSet(f)) => ~last.ok)

RECURSIVE SumSeq(_)
SumSeq(ns) == IF Len(ns) = 0 THEN 0 ELSE Head(ns) + SumSeq(Tail(ns))

\* The number of items of refs that name no id of ids.
Dangling(refs, ids) == Len(SelectSeq(refs, LAMBDA x : x \notin ids))

\* The references of an aggregate that resolve to no id of the aggregate:
\* a task's assigned agents and dependencies, a tool's associated agents and
\* dependencies, an interaction's source and target agent, an LLM
\* configuration's agent, an agent's available tools.
UnresolvedReferences(m) ==
    LET agent_ids == { m.agents[i].agent_id : i \in 1..Len(m.agents) }
        task_ids == { m.tasks[i].task_id : i \in 1..Len(m.tasks) }
        tool_ids == { m.tools[i].tool_id : i \in 1..Len(m.tools) }
    IN  SumSeq([ i \in 1..Len(m.tasks) |->
                   Dangling(m.tasks[i].assigned_agents, agent_ids)
                   + Dangling(m.tasks[i].dependencies, task_ids) ])
        + SumSeq([ i \in 1..Len(m.tools) |->
                   Dangling(m.tools[i].associated_agents, agent_ids)
                   + Dangling(m.tools[i].dependencies, tool_ids) ])
        + SumSeq([ i \in 1..Len(m.agent_interactions) |->
                   Dangling(<< m.agent_interactions[i].source_agent,
                               m.agent_interactions[i].target_agent >>, agent_ids) ])
        + SumSeq([ i \in 1..Len(m.agent_llm_configs) |->
                   Dangling(<< m.agent_llm_configs[i].agent_id >>, agent_ids) ])
        + SumSeq([ i \in 1..Len(m.agents) |->
                   Dangling(m.agents[i].tools_available, tool_ids) ])

\* C17: validate_all returns one error string for each unresolved reference
\* of the aggregate, all of them, and so the empty list exactly when every
\* reference resolves.
C17_ValidateAllCollectsEveryReference ==
    last.op = "validate_all" =>
        /\ Len(last.out) = UnresolvedReferences(last.arg)
        /\ (last.out = << >>) <=> (UnresolvedReferences(last.arg) = 0)

\* The sheets every workbook has, and those of the agent collections.
FixedSheetTitles ==
    << "1. Overview", "2. UI Specification", "3. API Specification", "4. LLM Prompts",
       "5. Database Schema", "6. Tech Stack & VC", "7. Traceability Matrix" >>

AgentSheetCollections == << "agent_architectures", "agent_configurations", "agent_tasks" >>

\* C18: the workbook holds the seven fixed sheets in their order, each with
\* its header row even when its collection is empty, followed by the agent
\* architecture, configuration and task sheets, each present exactly when its
\* collection is non-empty.
C18_SheetsInOrder ==
    last.op = "export" =>
        LET present == SelectSeq(AgentSheetCollections,
                                 LAMBDA c : last.agg.colls[c] # << >>)
        IN  /\ [ i \in 1..Len(last.out) |-> last.out[i].title ]
                 = FixedSheetTitles \o [ i \in 1..Len(present) |-> SheetTitle(present[i]) ]
            /\ Head(last.out[1].rows) = << "Field", "Value" >>
            /\ \A i \in 2..Len(last.out) : \A c \in CollectionSet :
                  last.out[i].title = SheetTitle(c) =>
                      Head(last.out[i].rows)
                        = [ k \in 1..Len(SheetColumns(c)) |-> SheetColumns(c)[k].header ]

\* C18 witness: a workbook exported with the configuration sheet left out
\* between the architecture and the task sheet, and an empty UI sheet.
C18_Witness ==
    /\ last.op = "export"
    /\ last.agg.colls["ui_specifications"] = << >>
    /\ last.agg.colls["agent_architectures"] # << >>
    /\ last.agg.colls["agent_configurations"] = << >>
    /\ last.agg.colls["agent_tasks"] # << >>
    /\ Len(last.out) = 9

\* C19: each record sheet has one data row per record, in the order of the
\* collection, and every cell holds the value of its field (a boolean as
\* "Yes" or "No").
C19_CellsEqualFields ==
    last.op = "export" =>
        \A i \in 2..Len(last.out) :
            \A c \in CollectionSet :
                last.out[i].title = SheetTitle(c) =>
                    LET recs == last.agg.colls[c]
                        data == Tail(last.out[i].rows)
                        cols == SheetColumns(c)
                    IN  /\ Len(data) = Len(recs)
                        /\ \A r \in 1..Len(recs) : \A k \in 1..Len(cols) :
                              IF cols[k].kind = "bool"
                              THEN data[r][k] = (IF recs[r][cols[k].field] THEN "Yes" ELSE "No")
                              ELSE data[r][k] = recs[r][cols[k].field]

\* C20: when the service is unreachable (no connection, or no answer in
\* time), a request makes exactly one attempt and ends in an error outcome,
\* not in text returned as a suggestion is.
C20_UnreachableGivesError ==
    (last.op \in {"generate_completion", "_stream_ollama_response"}
       /\ last.service \in {"unreachable", "timeout"})
        => (last.attempts = 1 /\ last.result.kind = "error")

\* ------------------------------------------------------------ suggestions
\* The first argument of each page's generate_ai_suggestion call.
SpecTypeOf(c) ==
    CASE c = "ui_specifications" -> "UI Specification"
      [] c = "api_specifications" -> "API Specification"
      [] c = "llm_prompts" -> "LLM Prompt"
      [] c = "database_schema" -> "Database Schema"
      [] c = "tech_stack" -> "Technology Stack"
      [] c = "traceability_matrix" -> "Traceability Matrix"

\* The second: the fixed prompt text of the page.
SuggestionPrompt(c) == << "Generate a specification with all fields for ", SpecTypeOf(c) >>

\* A call of the generator function generate_ui_requirement(feature_module,
\* screen_component, model="llama3.2", temperature=0.7) with the positional
\* arguments args.  The arguments are bound before a generator object is
\* made: fewer than the two required ones raise TypeError.  Otherwise the
\* call returns the generator object; no statement of the body has run and
\* no request has been made.
generate_ui_requirement(args) ==
    IF Len(args) < 2
    THEN [raised |-> TRUE, exc |-> "TypeError", attempts |-> 0]
    ELSE [raised |-> FALSE, attempts |-> 0,
          val |-> [t |-> "generator", fn |-> "generate_ui_requirement", args |-> args]]

\* generate_ai_suggestion(spec_type, prompt_text): the one-argument call of
\* generate_ui_requirement; a dict is returned as it is, anything else as the
\* requirement_description of a dict of UI placeholders (whatever spec_type
\* is); every exception is raised again as Exception("Failed to generate
\* suggestion: ...").
generate_ai_suggestion(spec_type, prompt_text) ==
    LET suggestion == generate_ui_requirement(<< prompt_text >>)
    IN  IF suggestion.raised
        THEN [raised |-> TRUE, attempts |-> suggestion.attempts,
              exc |-> << "Failed to generate suggestion: ", suggestion.exc >>]
        ELSE [raised |-> FALSE, attempts |-> suggestion.attempts,
              val |-> [requirement_id |-> "UI-001", feature_module |-> "Module",
                       screen_component |-> "Screen",
                       requirement_description |-> suggestion.val,
                       validation_rule |-> "Validation rule",
                       business_rule |-> "Business rule",
                       master_detail |-> "N/A", priority |-> "Should"]]

\* edit_*: "Add Another" (or "Add First ...") pressed on the page of form
\* collection c: show_<c>_form = True, st.rerun().
OpenForm(s, c) ==
    /\ wc[s].loaded
    /\ c \in FormCollections
    /\ session_state' = [session_state EXCEPT ![s].show = @ \cup {c}]
    /\ wc' = [wc EXCEPT ![s] = NoWC]
    /\ UNCHANGED << table_exists, columns, rows, clock, last, chosen, deleted, initvars, template_db >>

\* An "AI Suggestion" handler that appends a record to the collection and
\* stores the project.
RequestSuggestionStoring(s, c, service) ==
    /\ wc[s].loaded
    /\ c \in session_state[s].show
    /\ LET r == generate_ai_suggestion(SpecTypeOf(c), SuggestionPrompt(c))
           agg == [wc[s].agg EXCEPT !.colls[c] = Append(@, Construct(ModelOf(c), FilledForm(c)))]
       IN  /\ last' = [op |-> "suggest", ok |-> ~r.raised, id |-> wc[s].agg.project_id,
                       agg |-> wc[s].agg, kind |-> c, service |-> service,
                       attempts |-> r.attempts, result |-> r]
           /\ SetDB(update_project(DB, agg, clock))
    /\ UNCHANGED << clock, wc, session_state, chosen, deleted, initvars, template_db >>

\* edit_*: "AI Suggestion" pressed above the add form of c while the
\* text-generation service is in state `service`.  A returned suggestion is
\* kept under <c>_suggestion and the page runs again; an exception shows an
\* error.  Neither path touches brd_project or the store.  last keeps the
\* request and its outcome.
RequestSuggestion(s, c, service) ==
    /\ wc[s].loaded
    /\ c \in session_state[s].show
    /\ LET r == generate_ai_suggestion(SpecTypeOf(c), SuggestionPrompt(c))
       IN  /\ last' = [op |-> "suggest", ok |-> ~r.raised, id |-> wc[s].agg.project_id,
                       agg |-> wc[s].agg, kind |-> c, service |-> service,
                       attempts |-> r.attempts, result |-> r]
           /\ IF r.raised
              THEN UNCHANGED << wc, session_state >>
              ELSE /\ session_state' =
                        [session_state EXCEPT ![s].suggestion =
                            [ k \in (DOMAIN @) \cup {c} |-> IF k = c THEN r.val ELSE @[k] ]]
                   /\ wc' = [wc EXCEPT ![s] = NoWC]
    /\ UNCHANGED << table_exists, columns, rows, clock, chosen, deleted, initvars, template_db >>

\* edit_*: "Cancel" pressed in the add form of c: the form is closed, its
\* suggestion deleted, st.rerun().
CancelForm(s, c) ==
    /\ wc[s].loaded
    /\ c \in session_state[s].show
    /\ session_state' = [session_state EXCEPT ![s] = CloseForm(@, c)]
    /\ wc' = [wc EXCEPT ![s] = NoWC]
    /\ UNCHANGED << table_exists, columns, rows, clock, last, chosen, deleted, initvars, template_db >>

MaxSuggestClock == 3
MaxOpenForms == 1

\* One session works on one stored project: it opens add forms, asks for
\* suggestions, submits or cancels the forms, edits and deletes records and
\* saves the overview.
SuggestNext ==
    \/ LoadProject("s1")
    \/ \E c \in FormCollections :
          /\ Cardinality(session_state["s1"].show \cup {c}) <= MaxOpenForms
          /\ OpenForm("s1", c)
    \/ \E c \in FormCollections : \E service \in ServiceStates :
          RequestSuggestion("s1", c, service)
    \/ \E c \in FormCollections : CancelForm("s1", c)
    \/ /\ clock < MaxSuggestClock
       /\ \E c \in FormCollections : \E ch \in AddChanges(c) :
              /\ c \in session_state["s1"].show
              /\ wc["s1"].loaded
              /\ TotalRecs(wc["s1"].agg) < MaxRecs
              /\ AddRecord("s1", c, ch)
    \/ /\ clock < MaxSuggestClock
       /\ \E c \in FormCollections : \E i \in 1..MaxRecs : \E ch \in FormChanges(c) :
              EditRecord("s1", c, i, ch)
    \/ /\ clock < MaxSuggestClock
       /\ \E c \in FormCollections : \E i \in 1..MaxRecs : DeleteRecord("s1", c, i)
    \/ /\ clock < MaxSuggestClock
       /\ \E ch \in OverviewEdits : SaveChanges("s1", ch)

SpecSuggest == OrderInit /\ [][SuggestNext]_vars

\* C21: a suggestion requested while the text-generation service is reachable
\* and answers does not raise, and what it returns is a field set of the
\* record kind it was asked for: it has no field of another kind.
C21_SuggestionIsFieldSetOfKind ==
    (last.op = "suggest" /\ last.service = "answers") =>
        /\ ~last.result.raised
        /\ DOMAIN last.result.val \subseteq FieldNames(ModelOf(last.kind))

StoreFunctions ==
    {"create_project", "get_project", "update_project", "delete_project",
     "list_projects", "get_project_count"}

\* Where sqlite3 raises in a call: in init_database(), in
\* sqlite3.connect(DB_PATH), or in a cursor.execute of the function itself
\* (the file locked, unreadable or malformed).
FaultPoints == {"init_database", "connect", "execute"}

Raises(exc) == [kind |-> "raise", exc |-> exc]
Returns(value) == [kind |-> "return", value |-> value]

\* The outcome of fn() when sqlite3 raises at `fault`.  Every function runs
\* `try: init_database(); conn = connect(); ... except Exception: <handler>
\* finally: conn.close()`.  The handler raises again, but in list_projects it
\* returns [] and in get_project_count it returns 0.  While conn is not yet
\* bound the finally clause itself raises UnboundLocalError, which replaces
\* whatever the handler did.
FailingCall(fn, fault) ==
    IF fault \in {"init_database", "connect"} THEN Raises("UnboundLocalError")
    ELSE CASE fn = "list_projects" -> Returns(<< >>)
           [] fn = "get_project_count" -> Returns(0)
           [] OTHER -> Raises("sqlite3.Error")

\* A page calls fn while the store fails at `fault`; nothing is committed.
\* last keeps the call and its outcome.
CallWhileFailing(fn, fault) ==
    /\ last' = [op |-> "failing call", ok |-> FALSE, id |-> -1, agg |-> NoWC,
                fn |-> fn, fault |-> fault, result |-> FailingCall(fn, fault)]
    /\ UNCHANGED << table_exists, columns, rows, clock, wc, chosen, deleted,
                    initvars, template_db, session_state >>

MaxFaultClock == 2

\* One session creates, opens and deletes projects; at any time a call of a
\* persistence function may meet a failing store.
FaultNext ==
    \/ /\ clock < MaxFaultClock
       /\ \E name \in {"Order Tracker", "CRM"} : \E template_type \in TemplateTypes :
              CreateProject(name, "Tracks customer orders end to end", template_type)
    \/ LoadProject("s1")
    \/ DeleteProject("s1")
    \/ \E fn \in StoreFunctions : \E fault \in FaultPoints : CallWhileFailing(fn, fault)

SpecFault == Init /\ [][FaultNext]_vars

\* C23: a persistence function that meets a failing store ends by raising;
\* it does not return a value (an empty list, a count of zero) as it would
\* for a store that works.
C23_StoreFailureIsReported ==
    last.op = "failing call" => last.result.kind = "raise"

\* ------------------------------------------- two sessions, one project
RaceCollections == {"ui_specifications", "api_specifications"}

MaxRaceClock == 4
MaxRaceRecs == 2

\* Two sessions work on the one stored project: each loads it, changes its
\* working copy (a record added, edited or deleted, or the overview edited)
\* and stores it.
RaceNext ==
    \E s \in Sessions :
        \/ LoadProject(s)
        \/ /\ clock < MaxRaceClock
           /\ \E c \in RaceCollections : \E ch \in AddChanges(c) :
                  /\ wc[s].loaded
                  /\ TotalRecs(wc[s].agg) < MaxRaceRecs
                  /\ AddRecord(s, c, ch)
        \/ /\ clock < MaxRaceClock
           /\ \E c \in RaceCollections : \E i \in 1..MaxRaceRecs :
              \E ch \in FormChanges(c) : EditRecord(s, c, i, ch)
        \/ /\ clock < MaxRaceClock
           /\ \E c \in RaceCollections : \E i \in 1..MaxRaceRecs : DeleteRecord(s, c, i)
        \/ /\ clock < MaxRaceClock
           /\ \E ch \in OverviewEdits \ {<<"", "">>} : SaveChanges(s, ch)

SpecRace == OrderInit /\ [][RaceNext]_vars

\* C24: whenever a session stores its working copy of a project that has a
\* row, the row afterwards has, column for column, the content of that
\* working copy, whatever another session stored since this one loaded: the
\* last saver wins, and what an earlier saver changed remains only where the
\* last saver's copy has it too.
C24_LastSaverWins ==
    [][ \A s \in Sessions :
          ( /\ wc[s].loaded /\ ~wc'[s].loaded
            /\ clock' = clock + 1
            /\ last'.op \in UpdateOps
            /\ wc[s].agg.project_id \in DOMAIN rows ) =>
              LET id == wc[s].agg.project_id
              IN  /\ last'.id = id
                  /\ last'.agg.project_id = id
                  /\ \A col \in DOMAIN rows'[id] \ {"project_id", "created_at", "updated_at"} :
                         rows'[id][col] = ContentValue(last'.agg, col)
                  /\ \A c \in CollectionSet :
                         rows'[id][ColumnOf(c)] = json_dumps_list(last'.agg.colls[c]) ]_vars

\* Both sessions loaded the project while it had no record; one added a
\* record and stored, then the other, from its older copy, added a record and
\* stored: the row holds the second record alone.
C24_Witness ==
    /\ clock = 3
    /\ last.op = "add" /\ last.ok
    /\ TotalRecs(last.agg) = 1
    /\ last.id \in DOMAIN rows
    /\ rows[last.id]["overview_json"] = JsonText(model_dump(SampleOverview))
    /\ \A c \in CollectionSet :
           rows[last.id][ColumnOf(c)] = json_dumps_list(last.agg.colls[c])

\* --------------------------------------- saving a project found at start
\* The store holds one project written by an earlier run, in a table with
\* every column; at most one collection block of its row is bad.
FrameInit == LoadInit /\ columns = AllColumns

FrameCollections == {"ui_specifications", "llm_prompts", "agent_tasks"}

MaxFrameClock == 3
MaxFrameRecs == 2

\* One session opens the project and changes one collection, or the
\* overview, at a time; every change is stored.
FrameNext ==
    \/ LoadProject("s1")
    \/ /\ clock < MaxFrameClock
       /\ \E c \in FrameCollections : \E ch \in AddChanges(c) :
              /\ wc["s1"].loaded
              /\ Len(wc["s1"].agg.colls[c]) < MaxFrameRecs
              /\ AddRecord("s1", c, ch)
    \/ /\ clock < MaxFrameClock
       /\ \E c \in FrameCollections : \E i \in 1..MaxFrameRecs :
          \E ch \in FormChanges(c) : EditRecord("s1", c, i, ch)
    \/ /\ clock < MaxFrameClock
       /\ \E c \in FrameCollections : \E i \in 1..MaxFrameRecs :
              DeleteRecord("s1", c, i)
    \/ /\ clock < MaxFrameClock
       /\ \E ch \in OverviewEdits : SaveChanges("s1", ch)

SpecFrame == FrameInit /\ [][FrameNext]_vars

\* C25: when a session stores a loaded project, every collection block of
\* the row whose collection the handler did not change in the working copy is
\* afterwards exactly the text it was before, also a block that did not load
\* and was presented as an empty collection.
C25_SaveLeavesOtherBlocks ==
    [][ ( /\ wc["s1"].loaded /\ ~wc'["s1"].loaded
          /\ clock' = clock + 1
          /\ last'.op \in UpdateOps
          /\ wc["s1"].agg.project_id \in DOMAIN rows ) =>
            LET id == wc["s1"].agg.project_id
            IN  \A c \in CollectionSet :
                    last'.agg.colls[c] = wc["s1"].agg.colls[c] =>
                        rows'[id][ColumnOf(c)] = rows[id][ColumnOf(c)] ]_vars

\* C26: in every state the application reaches, every project a listing
\* shows loads: get_project of its id returns an aggregate and does not raise.
C26_ListedProjectsLoad ==
    \A L \in list_projects(DB) : \A i \in 1..Len(L) :
        get_project(DB, L[i].project_id).status = "ok"

\* C27: a page run in which the user selects entry e of the listing loads
\* the project that has the id of entry e, and no other, also when another
\* listed project has the same name; the save, export and delete buttons of
\* that run act on the project loaded.
C27_SelectionLoadsItsId ==
    [][ \A s \in Sessions : \A L \in list_projects(DB) : \A e \in 1..Len(L) :
          (LoadEntry(s, L, e) /\ wc'[s].loaded) =>
              wc'[s].agg.project_id = L[e].project_id ]_vars

\* C28: when two init_database runs interleave on a store that had no
\* projects table, neither raises, and once both are done there is one
\* projects table, with all fifteen columns.
C28_ConcurrentCreation ==
    ~legacy.exists =>
        /\ \A p \in Procs : pc[p].at # "raised"
        /\ AllDone => (table_exists /\ columns = AllColumns)

\* C29: a "Save Changes" submitted on a stored LLM prompt leaves every field
\* whose input the user did not change as it was in the record loaded (all
\* fields when no input was changed), in the working copy that is stored.
C29_EditChangesOnlyItsInputs ==
    [][ \A i \in 1..MaxFrameRecs : \A ch \in FormChanges("llm_prompts") :
          ( /\ EditRecord("s1", "llm_prompts", i, ch)
            /\ clock' = clock + 1
            /\ last'.op = "edit" ) =>
              \A f \in DOMAIN wc["s1"].agg.colls["llm_prompts"][i] \ {ch[1]} :
                  last'.agg.colls["llm_prompts"][i][f] =
                      wc["s1"].agg.colls["llm_prompts"][i][f] ]_vars

\* ------------------------------------------------------- TemplateManager
\* TemplateType
TemplateTypeValues == {"normal", "agentic", "multi_agentic"}

\* template_class(**template_data): TemplateType(template_type) raises for a
\* value outside the enum; ProjectMetadata requires a project_id and a
\* project_name of at least 3 characters.  Every other field of the three
\* template classes has a default.
ValidTemplate(template_data) ==
    /\ template_data.metadata.template_type \in TemplateTypeValues
    /\ StrLen(template_data.metadata.project_id) >= 3
    /\ StrLen(template_data.metadata.project_name) >= 3

\* f"tpl_{datetime.utcnow().strftime('%Y%m%d%H%M%S')}": the second.
TemplateIdAt(t) == t \div TicksPerSecond

\* What a TemplateManager method does: it returns val, or raises
\* Exception("Failed to ...") (ok false), and leaves the database db.
Outcome(ok, db, val) == [ok |-> ok, db |-> db, val |-> val]

\* create_template: validation, then INSERT INTO templates.  template_id is
\* the PRIMARY KEY and project_id UNIQUE: a second row with either raises.
\* status and version get the column defaults.
create_template(db, template_data, user_id, t) ==
    LET template_id == TemplateIdAt(t)
        m == template_data.metadata
    IN  IF \/ ~ValidTemplate(template_data)
           \/ template_id \in DOMAIN db.templates
           \/ \E k \in DOMAIN db.templates : db.templates[k].project_id = m.project_id
        THEN Outcome(FALSE, db, None)
        ELSE Outcome(TRUE,
                 [db EXCEPT !.templates =
                     [ k \in DOMAIN @ \cup {template_id} |->
                         IF k # template_id THEN @[k]
                         ELSE [template_id |-> template_id,
                               project_id |-> m.project_id,
                               template_type |-> m.template_type,
                               project_name |-> m.project_name,
                               description |-> m.project_description,
                               created_by |-> user_id,
                               created_at |-> << t \div TicksPerSecond >>,
                               last_modified_by |-> user_id,
                               status |-> "draft",
                               version |-> << 1, 0 >>,
                               content |-> JsonText(template_data)] ]],
                 template_id)

\* get_template: json.loads of the content column, or None.
get_template(db, template_id) ==
    IF template_id \in DOMAIN db.templates
    THEN Outcome(JsonParses(db.templates[template_id].content), db,
                 db.templates[template_id].content.v)
    ELSE Outcome(TRUE, db, None)

RECURSIVE NewestFirst(_)
\* ORDER BY created_at DESC (the template id is the second of creation).
NewestFirst(ids) ==
    IF ids = {} THEN << >>
    ELSE LET m == CHOOSE k \in ids : \A j \in ids : j <= k
         IN  << m >> \o NewestFirst(ids \ {m})

\* list_templates(template_type, status): the summary columns of the rows
\* that pass the filters given (a falsy filter is none).
list_templates(db, template_type, status) ==
    LET ids == { k \in DOMAIN db.templates :
                   /\ Truthy(template_type) => db.templates[k].template_type = template_type
                   /\ Truthy(status) => db.templates[k].status = status }
        order == NewestFirst(ids)
    IN  [ i \in 1..Len(order) |->
            LET row == db.templates[order[i]]
            IN  [template_id |-> row.template_id, project_id |-> row.project_id,
                 project_name |-> row.project_name, template_type |-> row.template_type,
                 status |-> row.status, version |-> row.version,
                 created_at |-> row.created_at] ]

\* update_template: validation, then UPDATE templates SET content = ?,
\* last_modified_by = ?, last_modified_at = ... WHERE template_id = ?; it
\* returns rowcount > 0.
update_template(db, template_id, template_data, user_id) ==
    IF ~ValidTemplate(template_data) THEN Outcome(FALSE, db, FALSE)
    ELSE IF template_id \notin DOMAIN db.templates THEN Outcome(TRUE, db, FALSE)
    ELSE Outcome(TRUE,
             [db EXCEPT !.templates[template_id] =
                 [@ EXCEPT !.content = JsonText(template_data),
                           !.last_modified_by = user_id]],
             TRUE)

\* save_version: the content is copied into template_versions under the
\* version that follows (the last part of "1.n" plus one), which becomes the
\* version of the template; "Template not found" when get_template returned
\* None (no row of that id).
save_version(db, template_id, changes, user_id) ==
    LET template == get_template(db, template_id)
    IN  IF ~template.ok \/ template_id \notin DOMAIN db.templates
        THEN Outcome(FALSE, db, None)
        ELSE LET current_version == db.templates[template_id].version
                 new_version == << current_version[1], current_version[2] + 1 >>
                 version_id == << template_id, new_version >>
             IN  IF version_id \in DOMAIN db.template_versions
                 THEN Outcome(FALSE, db, None)
                 ELSE Outcome(TRUE,
                          [db EXCEPT
                             !.template_versions =
                                 [ v \in DOMAIN @ \cup {version_id} |->
                                     IF v # version_id THEN @[v]
                                     ELSE [version_id |-> version_id,
                                           template_id |-> template_id,
                                           version_number |-> new_version,
                                           created_by |-> user_id,
                                           changes |-> changes,
                                           content |-> JsonText(template.val)] ],
                             !.templates[template_id].version = new_version],
                          version_id)

\* A template dict whose other keys are left to their defaults.
TemplateDict(project_id, project_name, template_type) ==
    [metadata |-> [project_id |-> project_id, project_name |-> project_name,
                   project_description |-> "Tracks customer orders end to end",
                   template_type |-> template_type, created_by |-> "Local AI"]]

\* The template dicts a caller passes: a valid one, and the same with
\* another project id, project name or template type, valid or not.
TemplateDicts ==
    { TemplateDict(pid, "Order Tracker", "normal") : pid \in {"BR-001", "UI-001", "id"} }
    \cup { TemplateDict("BR-001", name, "normal") : name \in {"CRM", "  "} }
    \cup { TemplateDict("BR-001", "Order Tracker", ty) : ty \in {"agentic", "Normal"} }

MaxTemplateClock == 3
MaxTemplateVersion == 1

\* The variables of the application a TemplateManager does not touch.
TemplateIdle ==
    UNCHANGED << table_exists, columns, rows, wc, chosen, deleted, initvars, session_state >>

\* A caller creates a template; last keeps the call and what it returned.
CreateTemplate(template_data, user_id) ==
    LET r == create_template(template_db, template_data, user_id, clock)
    IN  /\ template_db' = r.db
        /\ clock' = clock + 1
        /\ last' = [op |-> "create_template", ok |-> r.ok, id |-> r.val, agg |-> NoWC,
                    arg |-> template_data]
        /\ TemplateIdle

UpdateTemplate(template_id, template_data, user_id) ==
    LET r == update_template(template_db, template_id, template_data, user_id)
    IN  /\ template_db' = r.db
        /\ last' = [op |-> "update_template", ok |-> r.ok /\ r.val, id |-> template_id,
                    agg |-> NoWC, arg |-> template_data]
        /\ UNCHANGED clock
        /\ TemplateIdle

SaveVersion(template_id, changes, user_id) ==
    LET r == save_version(template_db, template_id, changes, user_id)
    IN  /\ template_db' = r.db
        /\ last' = [op |-> "save_version", ok |-> r.ok, id |-> template_id,
                    agg |-> NoWC, arg |-> changes]
        /\ UNCHANGED clock
        /\ TemplateIdle

TemplateNext ==
    \/ /\ clock < MaxTemplateClock
       /\ \E template_data \in TemplateDicts : CreateTemplate(template_data, "Local AI")
    \/ \E template_id \in 0..TemplateIdAt(MaxTemplateClock) :
       \E template_data \in TemplateDicts :
           UpdateTemplate(template_id, template_data, "Local AI")
    \/ \E template_id \in 0..TemplateIdAt(MaxTemplateClock) :
           /\ template_id \in DOMAIN template_db.templates =>
                  template_db.templates[template_id].version[2] < MaxTemplateVersion
           /\ SaveVersion(template_id, "Order", "Local AI")

SpecTemplate == Init /\ [][TemplateNext]_vars

\* C30: for every template a listing shows, the project_name and the
\* template_type of the entry are those of the metadata of the content
\* get_template returns for the entry's template id.
C30_ListingMatchesContent ==
    LET L == list_templates(template_db, None, None)
    IN  \A i \in 1..Len(L) :
            LET g == get_template(template_db, L[i].template_id)
            IN  /\ g.ok
                /\ L[i].project_name = g.val.metadata.project_name
                /\ L[i].template_type = g.val.metadata.template_type
====
